---- MODULE Spec2Model ----
(***************************************************************************)
(* Model of the command-category classifier and the per-node window       *)
(* reducer of msstats.py (get_command_by_args, get_all_commands,          *)
(* processMetricPoint, processNodeStats) together with the per-node       *)
(* pipeline that feeds them (collect points, classify every timestamp,    *)
(* reduce the window).                                                     *)
(*                                                                         *)
(* Rates are Python floats in the program.  They are represented here as  *)
(* integers counting units of 1/Den (Den = 2: a rate of 3 is 1.5 calls/s),*)
(* so that sums are exact and round() is a real conversion.               *)
(***************************************************************************)
EXTENDS Integers, Sequences, FiniteSets, TLC

\* ------------------------------------------------------------------ bounds
\* a rate r stands for r / Den calls per second
Den == 2
\* rates range over -MaxRate .. MaxRate (in units of 1/Den)
MaxRate == 3
\* largest number of command names in one raw point
MaxCmds == 2
\* largest number of timestamps in a window
MaxWindow == 2
\* largest number of category keys a caller removes from a window
MaxDropped == 1

Rates == (0 - MaxRate) .. MaxRate

\* ------------------------------------------------- the category argument lists
\* msstats.py:67-143  argument list of the GetTypeCmds call
GetTypeCmdsArgs ==
  <<
    "bitcount", "bitfield_ro", "bitpos", "getbit", "geodist", "geohash",
    "geopos", "georadiusbymember_ro", "georadius_ro", "geosearch", "hexists",
    "hget", "hgetall", "hkeys", "hlen", "hmget", "hrandfield", "hscan",
    "hstrlen", "hvals", "pfcount", "dump", "exists", "expiretime", "keys",
    "pexpiretime", "pttl", "randomkey", "scan", "sort", "sort_ro", "touch",
    "ttl", "type", "lindex", "llen", "lpos", "lrange", "scard", "sdiff",
    "sinter", "sintercard", "sismember", "smembers", "smismember",
    "srandmember", "sscan", "sunion", "zcard", "zcount", "zdiff", "zinter",
    "zintercard", "zlexcount", "zmscore", "zrandmember", "zrange",
    "zrangebylex", "zrangebyscore", "zrank", "zrevrange", "zrevrank",
    "zscan", "zscore", "zunion", "get", "getrange", "lcs", "mget", "strlen",
    "substr", "xinfo", "xlen", "xpending", "xrange", "xread", "xrevrange"
  >>

\* msstats.py:149-246  argument list of the SetTypeCmds call
SetTypeCmdsArgs ==
  <<
    "bitfield", "bitop", "setbit", "geoadd", "georadius",
    "georadiusbymember", "geosearchstore", "hdel", "hincrby", "hincrbyfloat",
    "hmset", "hset", "hsetnx", "pfadd", "pfdebug", "pfmerge", "copy", "del",
    "expire", "expireat", "migrate", "move", "persist", "pexpire",
    "pexpireat", "rename", "renamenx", "restore", "sort", "unlink", "blmove",
    "blmpop", "blpop", "brpop", "brpoplpush", "linsert", "lmove", "lmpop",
    "lpop", "lpush", "lpushx", "lrem", "lset", "ltrim", "rpop", "rpoplpush",
    "rpush", "rpushx", "sadd", "sdiffstore", "sinterstore", "smove", "spop",
    "srem", "sunionstore", "bzmpop", "bzpopmax", "bzpopmin", "zadd",
    "zdiffstore", "zincrby", "zinterstore", "zmpop", "zpopmax", "zpopmin",
    "zrangestore", "zrem", "zremrangebylex", "zremrangebyrank",
    "zremrangebyscore", "zrevrangebylex", "zrevrangebyscore", "zunionstore",
    "append", "decr", "decrby", "getdel", "getex", "getset", "incr",
    "incrby", "incrbyfloat", "mset", "msetnx", "psetex", "set", "setex",
    "setnx", "setrange", "xack", "xadd", "xautoclaim", "xclaim", "xdel",
    "xgroup", "xreadgroup", "xsetid", "xtrim"
  >>

\* msstats.py:252-288  argument list of the OtherTypeCmds call
OtherTypeCmdsArgs ==
  <<
    "asking", "cluster", "readonly", "readwrite", "auth", "client", "echo",
    "hello", "ping", "quit", "reset", "select", "eval", "evalsha",
    "evalsha_ro", "eval_ro", "fcall", "fcall_ro", "function", "script",
    "pfselftest", "object", "wait", "psubscribe", "publish", "pubsub",
    "punsubscribe", "spublish", "ssubscribe", "subscribe", "sunsubscribe",
    "unsubscribe", "discard", "exec", "multi", "unwatch", "watch"
  >>

\* msstats.py:294-300  argument list of the BitmapBasedCmds call
BitmapBasedCmdsArgs ==
  <<
    "bitcount", "bitfield", "bitfield_ro", "bitop", "bitpos", "getbit",
    "setbit"
  >>

\* msstats.py:306-309  argument list of the ClusterBasedCmds call
ClusterBasedCmdsArgs ==
  <<
    "asking", "cluster", "readonly", "readwrite"
  >>

\* msstats.py:315-322  argument list of the EvalBasedCmds call
EvalBasedCmdsArgs ==
  <<
    "eval", "evalsha", "evalsha_ro", "eval_ro", "fcall", "fcall_ro",
    "function", "script"
  >>

\* msstats.py:328-337  argument list of the GeoSpatialBasedCmds call
GeoSpatialBasedCmdsArgs ==
  <<
    "geoadd", "geodist", "geohash", "geopos", "georadius",
    "georadiusbymember", "georadiusbymember_ro", "georadius_ro", "geosearch",
    "geosearchstore"
  >>

\* msstats.py:343-358  argument list of the HashBasedCmds call
HashBasedCmdsArgs ==
  <<
    "hdel", "hexists", "hget", "hgetall", "hincrby", "hincrbyfloat", "hkeys",
    "hlen", "hmget", "hmset", "hrandfield", "hscan", "hset", "hsetnx",
    "hstrlen", "hvals"
  >>

\* msstats.py:364-368  argument list of the HyperLogLogBasedCmds call
HyperLogLogBasedCmdsArgs ==
  <<
    "pfadd", "pfcount", "pfdebug", "pfmerge", "pfselftest"
  >>

\* msstats.py:374-401  argument list of the KeyBasedCmds call
KeyBasedCmdsArgs ==
  <<
    "copy", "del", "dump", "exists", "expire", "expireat", "expiretime",
    "keys", "migrate", "move", "object", "persist", "pexpire", "pexpireat",
    "pexpiretime", "pttl", "randomkey", "rename", "renamenx", "restore",
    "scan", "sort", "sort_ro", "touch", "ttl", "type", "unlink", "wait"
  >>

\* msstats.py:407-428  argument list of the ListBasedCmds call
ListBasedCmdsArgs ==
  <<
    "blmove", "blmpop", "blpop", "brpop", "brpoplpush", "lindex", "linsert",
    "llen", "lmove", "lmpop", "lpop", "lpos", "lpush", "lpushx", "lrange",
    "lrem", "lset", "ltrim", "rpop", "rpoplpush", "rpush", "rpushx"
  >>

\* msstats.py:434-442  argument list of the PubSubBasedCmds call
PubSubBasedCmdsArgs ==
  <<
    "psubscribe", "publish", "pubsub", "punsubscribe", "spublish",
    "ssubscribe", "subscribe", "sunsubscribe", "unsubscribe"
  >>

\* msstats.py:448-464  argument list of the SetBasedCmds call
SetBasedCmdsArgs ==
  <<
    "sadd", "scard", "sdiff", "sdiffstore", "sinter", "sintercard",
    "sinterstore", "sismember", "smembers", "smismember", "smove", "spop",
    "srandmember", "srem", "sscan", "sunion", "sunionstore"
  >>

\* msstats.py:470-504  argument list of the SortedSetBasedCmds call
SortedSetBasedCmdsArgs ==
  <<
    "bzmpop", "bzpopmax", "bzpopmin", "zadd", "zcard", "zcount", "zdiff",
    "zdiffstore", "zincrby", "zinter", "zintercard", "zinterstore",
    "zlexcount", "zmpop", "zmscore", "zpopmax", "zpopmin", "zrandmember",
    "zrange", "zrangebylex", "zrangebyscore", "zrangestore", "zrank", "zrem",
    "zremrangebylex", "zremrangebyrank", "zremrangebyscore", "zrevrange",
    "zrevrangebylex", "zrevrangebyscore", "zrevrank", "zscan", "zscore",
    "zunion", "zunionstore"
  >>

\* msstats.py:510-531  argument list of the StringBasedCmds call
StringBasedCmdsArgs ==
  <<
    "append", "decr", "decrby", "get", "getdel", "getex", "getrange",
    "getset", "incr", "incrby", "incrbyfloat", "lcs", "mget", "mset",
    "msetnx", "psetex", "set", "setex", "setnx", "setrange", "strlen",
    "substr"
  >>

\* msstats.py:537-551  argument list of the StreamBasedCmds call
StreamBasedCmdsArgs ==
  <<
    "xack", "xadd", "xautoclaim", "xclaim", "xdel", "xgroup", "xinfo",
    "xlen", "xpending", "xrange", "xread", "xreadgroup", "xrevrange",
    "xsetid", "xtrim"
  >>

\* msstats.py:557-561  argument list of the TransactionBasedCmds call
TransactionBasedCmdsArgs ==
  <<
    "discard", "exec", "multi", "unwatch", "watch"
  >>

\* msstats.py:31-50 the 18 category names, in the order of the nodeStats literal
CategoryOrder ==
  << "Throughput (Ops)", "GetTypeCmds", "SetTypeCmds", "OtherTypeCmds",
     "BitmapBasedCmds", "ClusterBasedCmds", "EvalBasedCmds",
     "GeoSpatialBasedCmds", "HashBasedCmds", "HyperLogLogBasedCmds",
     "KeyBasedCmds", "ListBasedCmds", "PubSubBasedCmds", "SetBasedCmds",
     "SortedSetBasedCmds", "StringBasedCmds", "StreamBasedCmds",
     "TransactionBasedCmds" >>

Categories == { CategoryOrder[i] : i \in 1..Len(CategoryOrder) }

\* the argument list processMetricPoint passes for a non-Throughput category
ArgsOf(c) ==
  CASE c = "GetTypeCmds" -> GetTypeCmdsArgs
    [] c = "SetTypeCmds" -> SetTypeCmdsArgs
    [] c = "OtherTypeCmds" -> OtherTypeCmdsArgs
    [] c = "BitmapBasedCmds" -> BitmapBasedCmdsArgs
    [] c = "ClusterBasedCmds" -> ClusterBasedCmdsArgs
    [] c = "EvalBasedCmds" -> EvalBasedCmdsArgs
    [] c = "GeoSpatialBasedCmds" -> GeoSpatialBasedCmdsArgs
    [] c = "HashBasedCmds" -> HashBasedCmdsArgs
    [] c = "HyperLogLogBasedCmds" -> HyperLogLogBasedCmdsArgs
    [] c = "KeyBasedCmds" -> KeyBasedCmdsArgs
    [] c = "ListBasedCmds" -> ListBasedCmdsArgs
    [] c = "PubSubBasedCmds" -> PubSubBasedCmdsArgs
    [] c = "SetBasedCmds" -> SetBasedCmdsArgs
    [] c = "SortedSetBasedCmds" -> SortedSetBasedCmdsArgs
    [] c = "StringBasedCmds" -> StringBasedCmdsArgs
    [] c = "StreamBasedCmds" -> StreamBasedCmdsArgs
    [] c = "TransactionBasedCmds" -> TransactionBasedCmdsArgs

SeqToSet(s, n) == { s[i] : i \in 1..n }

\* the 17 categories that are computed from an argument list
ListCategories == Categories \ {"Throughput (Ops)"}

\* the member set of every category: the names in its argument list
MemberSets == [c \in ListCategories |-> SeqToSet(ArgsOf(c), Len(ArgsOf(c)))]

Members(c) == MemberSets[c]

\* every command name that is a member of some category
KnownCommands == UNION { Members(c) : c \in ListCategories }

\* a command name outside every category (test_msstats.py:148)
UnknownCmd == "unknown_cmd"

Commands == KnownCommands \cup {UnknownCmd}

\* ------------------------------------------------------------ pure functions
\* Python dict with no key
EmptyDict == [k \in {} |-> 0]

RECURSIVE ArgsSumRange(_, _, _, _)
\* what the loop of get_command_by_args adds for args[lo..hi]: a missing key
\* raises KeyError, which is swallowed; the range is added up by halves so
\* that the evaluation stays shallow for the long lists
ArgsSumRange(commands, args, lo, hi) ==
  IF lo > hi THEN 0
  ELSE IF lo = hi
  THEN (IF args[lo] \in DOMAIN commands THEN commands[args[lo]] ELSE 0)
  ELSE ArgsSumRange(commands, args, lo, (lo + hi) \div 2)
       + ArgsSumRange(commands, args, ((lo + hi) \div 2) + 1, hi)

\* the loop of get_command_by_args over args[1..n]
ArgsSum(commands, args, n) == ArgsSumRange(commands, args, 1, n)

RECURSIVE ArgsSumBreak(_, _, _)
ArgsSumBreak(commands, args, i) ==
  IF i > Len(args) \/ args[i] \notin DOMAIN commands THEN 0
  ELSE commands[args[i]] + ArgsSumBreak(commands, args, i + 1)

\* variant: the first missing key ends the loop (break instead of pass)
get_command_by_args_break(commands, args) == ArgsSumBreak(commands, args, 1)

\* variant: the counter starts at one call per second instead of zero
get_command_by_args_from1(commands, args) ==
  Den + ArgsSum(commands, args, Len(args))

get_command_by_args(commands, args) == ArgsSum(commands, args, Len(args))

RECURSIVE ValuesSum(_, _)
\* the loop of get_all_commands over the values of the keys in ks
ValuesSum(commands, ks) ==
  IF ks = {} THEN 0
  ELSE LET k == CHOOSE x \in ks : TRUE
       IN  commands[k] + ValuesSum(commands, ks \ {k})

\* variant: only the commands of some category are counted
get_all_commands_known(commands) ==
  ValuesSum(commands, DOMAIN commands \cap KnownCommands)

\* variant: counts the commands instead of adding their rates
get_all_commands_count(commands) == Den * Cardinality(DOMAIN commands)

get_all_commands(commands) == ValuesSum(commands, DOMAIN commands)

\* Python round() of the float n / Den: nearest integer, ties to even
round(n) ==
  LET q == n \div Den
      rem == n % Den
  IN  IF 2 * rem < Den THEN q
      ELSE IF 2 * rem > Den THEN q + 1
      ELSE IF q % 2 = 0 THEN q ELSE q + 1

\* variant: OtherTypeCmds is whatever is neither a get nor a set command
processMetricPoint_rest(metricPoint) ==
  [c \in Categories |->
     IF c = "Throughput (Ops)" THEN round(get_all_commands(metricPoint))
     ELSE IF c = "OtherTypeCmds"
     THEN round(get_all_commands(metricPoint)
                - get_command_by_args(metricPoint, GetTypeCmdsArgs)
                - get_command_by_args(metricPoint, SetTypeCmdsArgs))
     ELSE round(get_command_by_args(metricPoint, ArgsOf(c)))]

\* variant: a command already counted as a get command is not counted in
\* the data-structure categories
processMetricPoint_exclusive(metricPoint) ==
  LET rest == [k \in DOMAIN metricPoint \ Members("GetTypeCmds") |-> metricPoint[k]]
  IN  [c \in Categories |->
         IF c = "Throughput (Ops)" THEN round(get_all_commands(metricPoint))
         ELSE IF c \in {"GetTypeCmds", "SetTypeCmds", "OtherTypeCmds"}
         THEN round(get_command_by_args(metricPoint, ArgsOf(c)))
         ELSE round(get_command_by_args(rest, ArgsOf(c)))]

\* variant: the string commands are counted as key commands too
processMetricPoint_keys(metricPoint) ==
  [c \in Categories |->
     IF c = "Throughput (Ops)" THEN round(get_all_commands(metricPoint))
     ELSE IF c = "KeyBasedCmds"
     THEN round(get_command_by_args(metricPoint, KeyBasedCmdsArgs)
                + get_command_by_args(metricPoint, StringBasedCmdsArgs))
     ELSE round(get_command_by_args(metricPoint, ArgsOf(c)))]

processMetricPoint(metricPoint) ==
  ("Throughput (Ops)" :> round(get_all_commands(metricPoint)))
  @@ ("GetTypeCmds" :> round(get_command_by_args(metricPoint, GetTypeCmdsArgs)))
  @@ ("SetTypeCmds" :> round(get_command_by_args(metricPoint, SetTypeCmdsArgs)))
  @@ ("OtherTypeCmds" :> round(get_command_by_args(metricPoint, OtherTypeCmdsArgs)))
  @@ ("BitmapBasedCmds" :> round(get_command_by_args(metricPoint, BitmapBasedCmdsArgs)))
  @@ ("ClusterBasedCmds" :> round(get_command_by_args(metricPoint, ClusterBasedCmdsArgs)))
  @@ ("EvalBasedCmds" :> round(get_command_by_args(metricPoint, EvalBasedCmdsArgs)))
  @@ ("GeoSpatialBasedCmds" :> round(get_command_by_args(metricPoint, GeoSpatialBasedCmdsArgs)))
  @@ ("HashBasedCmds" :> round(get_command_by_args(metricPoint, HashBasedCmdsArgs)))
  @@ ("HyperLogLogBasedCmds" :> round(get_command_by_args(metricPoint, HyperLogLogBasedCmdsArgs)))
  @@ ("KeyBasedCmds" :> round(get_command_by_args(metricPoint, KeyBasedCmdsArgs)))
  @@ ("ListBasedCmds" :> round(get_command_by_args(metricPoint, ListBasedCmdsArgs)))
  @@ ("PubSubBasedCmds" :> round(get_command_by_args(metricPoint, PubSubBasedCmdsArgs)))
  @@ ("SetBasedCmds" :> round(get_command_by_args(metricPoint, SetBasedCmdsArgs)))
  @@ ("SortedSetBasedCmds" :> round(get_command_by_args(metricPoint, SortedSetBasedCmdsArgs)))
  @@ ("StringBasedCmds" :> round(get_command_by_args(metricPoint, StringBasedCmdsArgs)))
  @@ ("StreamBasedCmds" :> round(get_command_by_args(metricPoint, StreamBasedCmdsArgs)))
  @@ ("TransactionBasedCmds" :> round(get_command_by_args(metricPoint, TransactionBasedCmdsArgs)))

\* variant: the literal lacks its last key
nodeStatsInit_short == [c \in Categories \ {"TransactionBasedCmds"} |-> 0]

\* msstats.py:31-50 the initial nodeStats literal
nodeStatsInit == [c \in Categories |-> 0]

\* variant: every value overwrites the summary (no comparison)
MergePoint_last(nodeStats, processedMetricPoint) ==
  [c \in DOMAIN nodeStats |->
     IF c \in DOMAIN processedMetricPoint THEN processedMetricPoint[c]
     ELSE nodeStats[c]]

\* variant: the comparison is reversed
MergePoint_min(nodeStats, processedMetricPoint) ==
  [c \in DOMAIN nodeStats |->
     IF c \in DOMAIN processedMetricPoint /\ processedMetricPoint[c] < nodeStats[c]
     THEN processedMetricPoint[c]
     ELSE nodeStats[c]]

\* variant: the summary is rebuilt from the keys of the vector
MergePoint_rebuild(nodeStats, processedMetricPoint) ==
  [c \in DOMAIN processedMetricPoint |->
     IF c \in DOMAIN nodeStats /\ nodeStats[c] >= processedMetricPoint[c]
     THEN nodeStats[c]
     ELSE processedMetricPoint[c]]

\* variant: only the first non-zero value of a category is kept
MergePoint_first(nodeStats, processedMetricPoint) ==
  [c \in DOMAIN nodeStats |->
     IF c \in DOMAIN processedMetricPoint /\ nodeStats[c] = 0
     THEN processedMetricPoint[c]
     ELSE nodeStats[c]]

\* msstats.py:53-55 one vector folded into nodeStats
MergePoint(nodeStats, processedMetricPoint) ==
  [c \in DOMAIN nodeStats |->
     IF c \in DOMAIN processedMetricPoint /\ processedMetricPoint[c] > nodeStats[c]
     THEN processedMetricPoint[c]
     ELSE nodeStats[c]]

RECURSIVE MergeAll(_, _, _)
\* msstats.py:52 the loop over the window's values, in the dict's order
MergeAll(processedMetricPoints, order, n) ==
  IF n = 0 THEN nodeStatsInit
  ELSE MergePoint(MergeAll(processedMetricPoints, order, n - 1),
                  processedMetricPoints[order[n]])

\* order is the insertion order of the window's timestamps
processNodeStats(processedMetricPoints, order) ==
  MergeAll(processedMetricPoints, order, Len(order))

\* ------------------------------------------------------------------- inputs
\* commands that are combined with each other in one raw point
SampleCmds == {"get", "sort", "hget", "ping", UnknownCmd}

\* commands used in windows of several timestamps
WindowCmds == {"get", UnknownCmd}

\* category keys a caller of processNodeStats may leave out of a vector
DropCats == {"Throughput (Ops)", "GetTypeCmds"}

\* ------------------------------------------------------- memorystore.py
\* series consumed by one run, over all products and queries
MaxSeries == 3

\* the --project argument of main
project_id == "p1"

\* memorystore.py:398-402: the product labels main iterates over
Products == << "Redis", "Valkey", "Redis Cluster" >>

REGION_LABELS == << "region", "location" >>
ZONE_LABELS == << "zone" >>
NODETYPE_LABELS ==
  << "node_type", "cluster_node_type", "tier", "service_tier", "instance_type" >>

\* the elements of a list
Elems(s) == { s[i] : i \in 1..Len(s) }

\* main 414-427
base_order ==
  << "Source", "Project ID", "InstanceType", "ClusterId", "InstanceId",
     "NodeId", "NodeRole", "NodeType", "Region", "Zone",
     "BytesUsedForCache", "MaxMemory" >>

\* an optional value: None (or a raised exception) is << >>, a value v is << v >>
None == << >>

\* dict.get(k)
dict_get(labels, k) == IF k \in DOMAIN labels THEN << labels[k] >> ELSE None

\* truth value of an optional string: None and "" are false
truthy(o) == o # None /\ o[1] # ""

\* variant of Or: b or a, so that a value already stored is kept
Or_keep(a, b) == IF truthy(b) THEN b ELSE IF truthy(a) THEN a ELSE b

\* a or b
Or(a, b) == IF truthy(a) THEN a ELSE b

RECURSIVE pick_from(_, _, _)
pick_from(labels, keys, i) ==
  IF i > Len(keys) THEN None
  ELSE IF truthy(dict_get(labels, keys[i])) THEN dict_get(labels, keys[i])
  ELSE pick_from(labels, keys, i + 1)

\* memorystore.py:76-81
_pick(labels, keys) == pick_from(labels, keys, 1)

\* variant of inst_key: no placeholder for a series without any id label
inst_key_blank(rlabels) ==
  Or(dict_get(rlabels, "instance_id"),
     Or(dict_get(rlabels, "cluster_id"),
        Or(dict_get(rlabels, "resource_name"), << "" >>)))[1]

\* memorystore.py:156-161 (and 234-239, 265-270)
inst_key(rlabels) ==
  Or(dict_get(rlabels, "instance_id"),
     Or(dict_get(rlabels, "cluster_id"),
        Or(dict_get(rlabels, "resource_name"), << "unknown" >>)))[1]

\* memorystore.py:162 (and 240)
node_id(rlabels) ==
  Or(dict_get(rlabels, "node_id"),
     Or(dict_get(rlabels, "shard_id"), << "unknown" >>))[1]

\* the key of the node entry a series belongs to: table[inst_key][node_id]
KeyOf(rlabels) == << inst_key(rlabels), node_id(rlabels) >>

\* the "points" of a node entry: timestamp -> {cmd: rate}, with the
\* insertion order of the timestamps
NoPoints == [m |-> EmptyDict, o |-> << >>]

\* memorystore.py:131-143: the entry _ensure_node_entry creates
NewEntry(inst, node) ==
  ("Source" :> "MS") @@ ("ClusterId" :> inst) @@ ("NodeId" :> node) @@
  ("NodeRole" :> "") @@ ("NodeType" :> "") @@ ("Region" :> "") @@
  ("Zone" :> "") @@ ("Project ID" :> "") @@ ("InstanceId" :> "") @@
  ("InstanceType" :> "") @@ ("points" :> NoPoints)

\* the order in which a dict of dicts yields its (inst, node) pairs after
\* table[inst][node] is created: behind the last node of the same inst
InsertKey(order, k) ==
  IF \E i \in 1..Len(order) : order[i] = k THEN order
  ELSE IF \E i \in 1..Len(order) : order[i][1] = k[1]
  THEN LET last == CHOOSE i \in 1..Len(order) :
                      /\ order[i][1] = k[1]
                      /\ \A j \in (i + 1)..Len(order) : order[j][1] # k[1]
       IN SubSeq(order, 1, last) \o << k >> \o SubSeq(order, last + 1, Len(order))
  ELSE Append(order, k)

\* variant of NodeRoleOf: every role label is stored verbatim
NodeRoleOf_verbatim(role) == role

\* memorystore.py:176-181
NodeRoleOf(role) ==
  IF role = "primary" THEN "Master"
  ELSE IF role = "replica" THEN "Replica"
  ELSE role

\* memorystore.py:187-193: the command name of a series, None or "" if absent
cmd_of(mlabels) ==
  IF truthy(dict_get(mlabels, "cmd")) THEN dict_get(mlabels, "cmd")
  ELSE IF "command" \in DOMAIN mlabels THEN << mlabels["command"] >>
  ELSE IF "command_name" \in DOMAIN mlabels THEN << mlabels["command_name"] >>
  ELSE dict_get(mlabels, "cmd")

\* float(n) of a whole number n, as a rate in units of 1/Den
float(n) == n * Den

\* int(x) of a number x held in units of 1/Den: truncation towards zero
int(x) == IF x >= 0 THEN x \div Den ELSE 0 - ((0 - x) \div Den)

\* point.value.double_value of a TypedValue [kind, v]: the number when the
\* value is held as a double; for a value held otherwise the accessor raises
\* (<< >>) or yields the field's default 0.0, as the message library decides
double_value(value, strict) ==
  IF value.kind = "double" THEN << value.v >>
  ELSE IF strict THEN None ELSE << 0 >>

\* point.value.int64_value, likewise (a whole number)
int64_value(value, strict) ==
  IF value.kind = "int64" THEN << value.v >>
  ELSE IF strict THEN None ELSE << 0 >>

\* memorystore.py:203-210: the rate recorded for one sample
rate_of(value, strict) ==
  IF double_value(value, strict) # None THEN double_value(value, strict)[1]
  ELSE IF int64_value(value, strict) # None
       THEN float(int64_value(value, strict)[1])
       ELSE 0

\* memorystore.py:247-253 and 274-280: the whole number read from one sample
scalar_of(value, strict) ==
  IF int64_value(value, strict) # None THEN int64_value(value, strict)[1]
  ELSE IF double_value(value, strict) # None
       THEN int(double_value(value, strict)[1])
       ELSE 0

\* variant of StorePoint: a rate already stored for (t, cmd) is added to
StorePoint_sum(pts, t, cmd, pv) ==
  LET old == IF t \in DOMAIN pts.m THEN pts.m[t] ELSE EmptyDict
      was == IF cmd \in DOMAIN old THEN old[cmd] ELSE 0
  IN  [m |-> (t :> ((cmd :> was + pv) @@ old)) @@ pts.m,
       o |-> IF t \in DOMAIN pts.m THEN pts.o ELSE Append(pts.o, t)]

\* memorystore.py:199-201 and 211: entry["points"][t][cmd] = pv
StorePoint(pts, t, cmd, pv) ==
  LET old == IF t \in DOMAIN pts.m THEN pts.m[t] ELSE EmptyDict
  IN  [m |-> (t :> ((cmd :> pv) @@ old)) @@ pts.m,
       o |-> IF t \in DOMAIN pts.m THEN pts.o ELSE Append(pts.o, t)]

RECURSIVE StorePoints(_, _, _, _, _)
\* memorystore.py:198-211: the loop over the samples of one series
StorePoints(pts, samples, cmd, strict, i) ==
  IF i > Len(samples) THEN pts
  ELSE StorePoints(StorePoint(pts, samples[i].t, cmd, rate_of(samples[i], strict)),
                   samples, cmd, strict, i + 1)

\* memorystore.py:166-211: what one series does to its node entry
accumulate_entry(entry, s, product_name, strict) ==
  LET rlabels == s.resource
      mlabels == s.metric
      role == Or(dict_get(mlabels, "role"),
                 Or(dict_get(rlabels, "role"), << "" >>))[1]
      cmd == cmd_of(mlabels)
  IN  [k \in DOMAIN entry |->
        CASE k = "Project ID" -> project_id
          [] k = "InstanceId" ->
               Or(dict_get(rlabels, "instance_id"),
                  Or(dict_get(rlabels, "cluster_id"), << "" >>))[1]
          [] k = "Region" ->
               Or(_pick(rlabels, REGION_LABELS), << entry["Region"] >>)[1]
          [] k = "Zone" ->
               Or(_pick(rlabels, ZONE_LABELS), << entry["Zone"] >>)[1]
          [] k = "NodeType" ->
               Or(_pick(rlabels, NODETYPE_LABELS), << entry["NodeType"] >>)[1]
          [] k = "NodeRole" ->
               IF role # "" THEN NodeRoleOf(role) ELSE entry["NodeRole"]
          [] k = "InstanceType" -> product_name
          [] k = "points" ->
               IF truthy(cmd)
               THEN StorePoints(entry["points"], s.points, cmd[1], strict, 1)
               ELSE entry["points"]
          [] OTHER -> entry[k]]

RECURSIVE max_scalar(_, _, _, _)
\* memorystore.py:245-255 and 272-282: the largest sample of a series, from 0
max_scalar(samples, strict, i, maxv) ==
  IF i > Len(samples) THEN maxv
  ELSE max_scalar(samples, strict, i + 1,
                  IF scalar_of(samples[i], strict) > maxv
                  THEN scalar_of(samples[i], strict) ELSE maxv)

\* variant of attach_entry: the last series replaces the stored value
attach_entry_last(entry, s, strict) ==
  ("BytesUsedForCache" :> max_scalar(s.points, strict, 1, 0)) @@ entry

\* memorystore.py:244-257: entry[key_name] = max(entry.get(key_name, 0), maxv)
attach_entry(entry, s, strict) ==
  LET maxv == max_scalar(s.points, strict, 1, 0)
      prev == IF "BytesUsedForCache" \in DOMAIN entry
              THEN entry["BytesUsedForCache"] ELSE 0
  IN  ("BytesUsedForCache" :> (IF prev >= maxv THEN prev ELSE maxv)) @@ entry

\* memorystore.py:262-283: one series of the capacity query; reading the
\* defaultdict creates the key with 0
capacity_step(cap, s, strict) ==
  LET inst == inst_key(s.resource)
      v_max == max_scalar(s.points, strict, 1, 0)
      prev == IF inst \in DOMAIN cap THEN cap[inst] ELSE 0
  IN  (inst :> (IF v_max > prev THEN v_max ELSE prev)) @@ cap

\* memorystore.py:285-288: every node of an instance with a capacity gets it
apply_capacity(tbl, cap) ==
  [k \in DOMAIN tbl |->
     IF k[1] \in DOMAIN cap THEN ("MaxMemory" :> cap[k[1]]) @@ tbl[k]
     ELSE tbl[k]]

\* variant of apply_entry: 'points' is not removed from the entry
apply_entry_keep(entry) ==
  LET pts == entry["points"]
      processed == [t \in DOMAIN pts.m |-> processMetricPoint(pts.m[t])]
      cs == IF DOMAIN processed # {}
            THEN processNodeStats(processed, pts.o) ELSE EmptyDict
  IN  [k \in DOMAIN entry \cup {"commandstats"} |->
         IF k = "commandstats" THEN cs ELSE entry[k]]

\* memorystore.py:222-228: classify and reduce the points of one entry
apply_entry(entry) ==
  LET pts == entry["points"]
      processed == [t \in DOMAIN pts.m |-> processMetricPoint(pts.m[t])]
      cs == IF DOMAIN processed # {}
            THEN processNodeStats(processed, pts.o) ELSE EmptyDict
  IN  [k \in (DOMAIN entry \ {"points"}) \cup {"commandstats"} |->
         IF k = "commandstats" THEN cs ELSE entry[k]]

\* variant of _apply_processed_categories: one summary is raised by the points
\* of every node and given to each node that has points
_apply_processed_categories_shared(tbl) ==
  LET per == [k \in DOMAIN tbl |-> apply_entry(tbl[k])]
      has == { k \in DOMAIN tbl : per[k]["commandstats"] # EmptyDict }
  IN  [k \in DOMAIN tbl |->
         IF k \in has
         THEN [per[k] EXCEPT !["commandstats"] =
                 [c \in DOMAIN @ |->
                    CHOOSE m \in { per[j]["commandstats"][c] : j \in has } :
                      \A j \in has : m >= per[j]["commandstats"][c]]]
         ELSE per[k]]

\* memorystore.py:214-228
_apply_processed_categories(tbl) == [k \in DOMAIN tbl |-> apply_entry(tbl[k])]

\* memorystore.py:295-296: the identity fields _flatten_rows writes back
flatten_entry(entry, instance_type) ==
  [k \in DOMAIN entry |->
     CASE k = "Project ID" ->
            Or(<< project_id >>, dict_get(entry, "Project ID"))[1]
       [] k = "InstanceType" ->
            Or(<< instance_type >>, dict_get(entry, "InstanceType"))[1]
       [] OTHER -> entry[k]]

\* memorystore.py:297-299: the entry, then its commandstats, without the
\* "commandstats" key
row_of(entry) ==
  LET cs == IF "commandstats" \in DOMAIN entry THEN entry["commandstats"]
            ELSE EmptyDict
  IN  [k \in (DOMAIN entry \ {"commandstats"}) \cup DOMAIN cs |->
         IF k \in DOMAIN cs THEN cs[k] ELSE entry[k]]

\* memorystore.py:291-301: one row per node, in the order of the table
_flatten_rows(tbl, order, instance_type) ==
  [i \in 1..Len(order) |-> row_of(flatten_entry(tbl[order[i]], instance_type))]

\* the order in which the keys of a row were inserted: the entry's fields
\* (131-143), BytesUsedForCache (257), MaxMemory (288), the summary (31-50)
KeyOrder ==
  << "Source", "ClusterId", "NodeId", "NodeRole", "NodeType", "Region", "Zone",
     "Project ID", "InstanceId", "InstanceType", "points",
     "BytesUsedForCache", "MaxMemory" >> \o CategoryOrder

\* row.keys()
keys(row) == SelectSeq(KeyOrder, LAMBDA k : k \in DOMAIN row)

\* variant of add_keys: a key is added every time it is met
add_keys_all(category_keys, ks) ==
  category_keys \o SelectSeq(ks, LAMBDA k : k \notin Elems(base_order))

\* memorystore.py:431-433: the keys of one row, which are distinct, are
\* added in their order unless known already
add_keys(category_keys, ks) ==
  category_keys \o
  SelectSeq(ks, LAMBDA k : k \notin Elems(base_order)
                           /\ k \notin Elems(category_keys))

RECURSIVE collect_keys(_, _, _)
\* memorystore.py:429-433: the loop over all rows
collect_keys(category_keys, rs, i) ==
  IF i > Len(rs) THEN category_keys
  ELSE collect_keys(add_keys(category_keys, keys(rs[i])), rs, i + 1)

\* memorystore.py:434
header_of(rs) == base_order \o collect_keys(<< >>, rs, 1)

\* the columns that hold numbers
NumberColumns == {"BytesUsedForCache", "MaxMemory"} \cup Categories

\* the text csv writes for a value: str() of a number, a string as it is
cell(k, v) == IF k \in NumberColumns THEN ToString(v) ELSE v

\* csv.DictWriter.writerow: a missing key is written as restval ""
line_of(hdr, row) ==
  [i \in 1..Len(hdr) |->
     IF hdr[i] \in DOMAIN row THEN cell(hdr[i], row[hdr[i]]) ELSE ""]

\* variant of csv_lines: nothing is written when there is no row
csv_lines_skip(hdr, rs) ==
  IF Len(rs) = 0 THEN << >>
  ELSE << hdr >> \o [i \in 1..Len(rs) |-> line_of(hdr, rs[i])]

\* memorystore.py:438-442: the header line, then one line per row
csv_lines(hdr, rs) == << hdr >> \o [i \in 1..Len(rs) |-> line_of(hdr, rs[i])]

\* -------------------------------------------------------------------- state
VARIABLES
  points,            \* timestamp -> raw point (command -> rate) of the node
  ts_order,          \* insertion order of the timestamps of points
  processed_points,  \* timestamp -> category vector
  dropped,           \* number of category keys removed from processed_points
  commandstats,      \* the node summary, EmptyDict until reduced
  pc,                \* "collect", "classified" or "reduced"
  table,             \* collect_for_product: (inst_key, node_id) -> node entry
  table_order,       \* the order in which table yields its nodes
  cap_by_inst,       \* _attach_capacity_scalar: inst_key -> capacity
  cphase,            \* the position of main and collect_for_product
  product,           \* index in Products of the product being collected
  ts,                \* the series the running loop works on, None outside
  nseries,           \* number of series consumed so far
  outcome,           \* how each query of this product ended so far
  rows,              \* the rows collect_for_product returned
  all_rows,          \* main: the rows of the products collected so far
  header,            \* main: the header built
  output,            \* the lines written to the file
  raises             \* whether reading a value in the other wire
                     \* representation raises (else it yields the default)

\* the state of msstats.py
mvars == << points, ts_order, processed_points, dropped, commandstats, pc >>

\* the state of memorystore.py
cvars == << table, table_order, cap_by_inst, cphase, product, ts, nseries,
            outcome, rows, all_rows, header, output, raises >>

vars == << mvars, cvars >>

\* memorystore.py:316 and 394: main before the first query
CollectorStart ==
  /\ table = EmptyDict
  /\ table_order = << >>
  /\ cap_by_inst = EmptyDict
  /\ cphase = "commands"
  /\ product = 1
  /\ ts = None
  /\ nseries = 0
  /\ outcome = EmptyDict
  /\ rows = << >>
  /\ all_rows = << >>
  /\ header = << >>
  /\ output = << >>

\* the node starts with no timestamp, or with one timestamp whose raw point
\* is still empty (msstats.py:644-645)
Init ==
  /\ \E n \in {0, 1} :
        /\ points = [t \in 1..n |-> EmptyDict]
        /\ ts_order = [i \in 1..n |-> i]
  /\ processed_points = EmptyDict
  /\ dropped = 0
  /\ commandstats = EmptyDict
  /\ pc = "collect"
  /\ CollectorStart
  /\ raises = FALSE

\* the raw point stored at timestamp t, empty when there is none yet
PointAt(t) == IF t \in DOMAIN points THEN points[t] ELSE EmptyDict

\* msstats.py:642-653: points[t][cmd] = rate, creating points[t] when new
Collect(t, cmd, rate) ==
  /\ pc = "collect"
  /\ IF t \in DOMAIN points
     THEN cmd \in DOMAIN points[t] \/ Cardinality(DOMAIN points[t]) < MaxCmds
     ELSE Len(ts_order) < MaxWindow
  /\ points' = (t :> ((cmd :> rate) @@ PointAt(t))) @@ points
  /\ ts_order' = IF t \in DOMAIN points THEN ts_order ELSE Append(ts_order, t)
  /\ UNCHANGED << processed_points, dropped, commandstats, pc >>
  /\ UNCHANGED cvars

\* msstats.py:655-660: every timestamp's raw point is classified
ProcessPoints ==
  /\ pc = "collect"
  /\ processed_points' = [t \in DOMAIN points |-> processMetricPoint(points[t])]
  /\ pc' = "classified"
  /\ UNCHANGED << points, ts_order, dropped, commandstats >>
  /\ UNCHANGED cvars

\* a caller of processNodeStats hands over a vector that lacks a category key
DropCategory(t, c) ==
  /\ pc = "classified"
  /\ dropped < MaxDropped
  /\ t \in DOMAIN processed_points
  /\ c \in DOMAIN processed_points[t]
  /\ processed_points' =
       [processed_points EXCEPT
          ![t] = [k \in DOMAIN processed_points[t] \ {c} |-> processed_points[t][k]]]
  /\ dropped' = dropped + 1
  /\ UNCHANGED << points, ts_order, commandstats, pc >>
  /\ UNCHANGED cvars

RECURSIVE MergeOnto(_, _, _, _)
\* the loop of processNodeStats run on an accumulator that already exists
MergeOnto(nodeStats, processedMetricPoints, order, n) ==
  IF n = 0 THEN nodeStats
  ELSE MergePoint(MergeOnto(nodeStats, processedMetricPoints, order, n - 1),
                  processedMetricPoints[order[n]])

\* variant: nodeStats is one dictionary shared by all calls (a module-level
\* or default-argument literal), so a call starts from the last result
ReduceNode_shared ==
  /\ pc = "classified"
  /\ commandstats' =
       MergeOnto(IF commandstats = EmptyDict THEN nodeStatsInit ELSE commandstats,
                 processed_points, ts_order, Len(ts_order))
  /\ pc' = "reduced"
  /\ UNCHANGED << points, ts_order, processed_points, dropped >>
  /\ UNCHANGED cvars

\* msstats.py:662-664: the window is reduced to the node summary
ReduceNode ==
  /\ pc = "classified"
  /\ commandstats' = processNodeStats(processed_points, ts_order)
  /\ pc' = "reduced"
  /\ UNCHANGED << points, ts_order, processed_points, dropped >>
  /\ UNCHANGED cvars

\* one raw point: any single command, or several of the sample commands
PointInput(cmd) ==
  \/ DOMAIN PointAt(1) \subseteq {cmd}
  \/ DOMAIN PointAt(1) \cup {cmd} \subseteq SampleCmds

Next ==
  \/ \E cmd \in Commands, rate \in Rates : PointInput(cmd) /\ Collect(1, cmd, rate)
  \/ ProcessPoints
  \/ ReduceNode

Spec == Init /\ [][Next]_vars

\* the rates that are a whole number of calls per second
WholeRateSet == { r \in Rates : r % Den = 0 }

\* the classifier and the reducer on one raw point of whole rates
NextWhole ==
  \/ \E cmd \in Commands, rate \in WholeRateSet :
        PointInput(cmd) /\ Collect(1, cmd, rate)
  \/ ProcessPoints
  \/ ReduceNode

SpecWhole == Init /\ [][NextWhole]_vars

NextWindow ==
  \/ \E t \in 1..MaxWindow, cmd \in WindowCmds, rate \in Rates :
        /\ t <= Len(ts_order) + 1
        /\ DOMAIN PointAt(t) \subseteq {cmd}
        /\ Collect(t, cmd, rate)
  \/ ProcessPoints
  \/ \E t \in 1..MaxWindow, c \in DropCats : DropCategory(t, c)
  \/ ReduceNode

SpecWindow == Init /\ [][NextWindow]_vars

\* msstats.py:642-664: the windows the collector itself builds, where every
\* category vector is the complete result of processMetricPoint
NextOrder ==
  \/ \E t \in 1..MaxWindow, cmd \in WindowCmds, rate \in Rates :
        /\ t <= Len(ts_order) + 1
        /\ DOMAIN PointAt(t) \subseteq {cmd}
        /\ Collect(t, cmd, rate)
  \/ ProcessPoints
  \/ ReduceNode

SpecOrder == Init /\ [][NextOrder]_vars

\* msstats.py:662-663: the loop moves on to the next node; the summary of the
\* node just reduced stays referenced from metric_points
NextNode ==
  /\ pc = "reduced"
  /\ points' = EmptyDict
  /\ ts_order' = << >>
  /\ processed_points' = EmptyDict
  /\ dropped' = 0
  /\ pc' = "collect"
  /\ UNCHANGED commandstats
  /\ UNCHANGED cvars

\* several nodes in turn, each with one timestamp
NextNodes ==
  \/ \E cmd \in WindowCmds, rate \in Rates :
        /\ DOMAIN PointAt(1) \subseteq {cmd}
        /\ Collect(1, cmd, rate)
  \/ ProcessPoints
  \/ ReduceNode
  \/ NextNode

SpecNodes == Init /\ [][NextNodes]_vars

\* ------------------------------------------------------ collector steps
\* one series of a query result: resource labels, metric labels, samples
Series(rlabels, mlabels, samples) ==
  [resource |-> rlabels, metric |-> mlabels, points |-> samples]

\* how a query ended: it raised, or returned no series, or some
Outcome(fail) ==
  IF fail THEN "failed" ELSE IF ts = None THEN "empty" ELSE "data"

\* the node entry a series works on: the stored one, or a new one
EntryOf(k) == IF k \in DOMAIN table THEN table[k] ELSE NewEntry(k[1], k[2])

\* memorystore.py:151-211: one iteration of the loop of _accumulate_commands
AccumulateStep(s) ==
  /\ cphase = "commands"
  /\ nseries < MaxSeries
  /\ table' = (KeyOf(s.resource) :>
                 accumulate_entry(EntryOf(KeyOf(s.resource)), s,
                                  Products[product], raises)) @@ table
  /\ table_order' = InsertKey(table_order, KeyOf(s.resource))
  /\ ts' = << s >>
  /\ nseries' = nseries + 1
  /\ UNCHANGED << cap_by_inst, cphase, product, outcome, rows, all_rows,
                  header, output, raises >>
  /\ UNCHANGED mvars

\* variant of CommandsEnd: a failed query ends the export
CommandsEnd_abort(fail) ==
  /\ cphase = "commands"
  /\ fail => ts = None
  /\ outcome' = ("commands" :> Outcome(fail)) @@ outcome
  /\ cphase' = IF fail THEN "aborted"
               ELSE IF DOMAIN table = {} THEN "discover" ELSE "memory"
  /\ ts' = None
  /\ UNCHANGED << table, table_order, cap_by_inst, product, nseries, rows,
                  all_rows, header, output, raises >>
  /\ UNCHANGED mvars

\* memorystore.py:319-333: the commands query is over; a failed query is an
\* empty result (328-329); an empty table goes to discovery (333)
CommandsEnd(fail) ==
  /\ cphase = "commands"
  /\ fail => ts = None
  /\ outcome' = ("commands" :> Outcome(fail)) @@ outcome
  /\ cphase' = IF DOMAIN table = {} THEN "discover" ELSE "memory"
  /\ ts' = None
  /\ UNCHANGED << table, table_order, cap_by_inst, product, nseries, rows,
                  all_rows, header, output, raises >>
  /\ UNCHANGED mvars

\* memorystore.py:232-257: one iteration of the loop of _attach_memory_usage,
\* in the discovery call (340) or in the memory call (351)
AttachStep(s) ==
  /\ cphase \in {"discover", "memory"}
  /\ nseries < MaxSeries
  /\ table' = (KeyOf(s.resource) :>
                 attach_entry(EntryOf(KeyOf(s.resource)), s, raises)) @@ table
  /\ table_order' = InsertKey(table_order, KeyOf(s.resource))
  /\ ts' = << s >>
  /\ nseries' = nseries + 1
  /\ UNCHANGED << cap_by_inst, cphase, product, outcome, rows, all_rows,
                  header, output, raises >>
  /\ UNCHANGED mvars

\* memorystore.py:334-344: the discovery query is over; every discovered
\* entry gets the product and the project
DiscoverEnd(fail) ==
  /\ cphase = "discover"
  /\ fail => ts = None
  /\ outcome' = ("discover" :> Outcome(fail)) @@ outcome
  /\ table' = [k \in DOMAIN table |->
                 ("InstanceType" :> Products[product]) @@
                 ("Project ID" :> project_id) @@ table[k]]
  /\ cphase' = "memory"
  /\ ts' = None
  /\ UNCHANGED << table_order, cap_by_inst, product, nseries, rows, all_rows,
                  header, output, raises >>
  /\ UNCHANGED mvars

\* memorystore.py:346-353: the memory query is over, or failed
MemoryEnd(fail) ==
  /\ cphase = "memory"
  /\ fail => ts = None
  /\ outcome' = ("memory" :> Outcome(fail)) @@ outcome
  /\ cphase' = "capacity"
  /\ ts' = None
  /\ UNCHANGED << table, table_order, cap_by_inst, product, nseries, rows,
                  all_rows, header, output, raises >>
  /\ UNCHANGED mvars

\* memorystore.py:262-283: one iteration of the first loop of
\* _attach_capacity_scalar
CapacityStep(s) ==
  /\ cphase = "capacity"
  /\ nseries < MaxSeries
  /\ cap_by_inst' = capacity_step(cap_by_inst, s, raises)
  /\ ts' = << s >>
  /\ nseries' = nseries + 1
  /\ UNCHANGED << table, table_order, cphase, product, outcome, rows, all_rows,
                  header, output, raises >>
  /\ UNCHANGED mvars

\* memorystore.py:285-288 and 355-360: the capacity query is over, or failed;
\* the capacities found are attached to the nodes
CapacityEnd(fail) ==
  /\ cphase = "capacity"
  /\ fail => ts = None
  /\ outcome' = ("capacity" :> Outcome(fail)) @@ outcome
  /\ table' = apply_capacity(table, cap_by_inst)
  /\ cphase' = "compute"
  /\ ts' = None
  /\ UNCHANGED << table_order, cap_by_inst, product, nseries, rows, all_rows,
                  header, output, raises >>
  /\ UNCHANGED mvars

\* memorystore.py:362-366: _apply_processed_categories, then _flatten_rows
Return ==
  /\ cphase = "compute"
  /\ table' = [k \in DOMAIN table |->
                 flatten_entry(apply_entry(table[k]), Products[product])]
  /\ rows' = _flatten_rows(_apply_processed_categories(table), table_order,
                           Products[product])
  /\ cphase' = "returned"
  /\ UNCHANGED << table_order, cap_by_inst, product, ts, nseries, outcome,
                  all_rows, header, output, raises >>
  /\ UNCHANGED mvars

\* memorystore.py:398-406: all_rows.extend(rows), then the next product with
\* a new table (316), or the header after the last product
Extend ==
  /\ cphase = "returned"
  /\ all_rows' = all_rows \o rows
  /\ rows' = << >>
  /\ table' = EmptyDict
  /\ table_order' = << >>
  /\ cap_by_inst' = EmptyDict
  /\ outcome' = EmptyDict
  /\ IF product < Len(Products)
     THEN product' = product + 1 /\ cphase' = "commands"
     ELSE product' = product /\ cphase' = "header"
  /\ UNCHANGED << ts, nseries, header, output, raises >>
  /\ UNCHANGED mvars

\* the rows written before DictWriter.writerow raises: those in front of the
\* first row with a key outside the header, all rows if there is none
Writable(hdr, rs) ==
  LET bad == { i \in 1..Len(rs) : ~(DOMAIN rs[i] \subseteq Elems(hdr)) }
  IN  IF bad = {} THEN rs
      ELSE SubSeq(rs, 1, (CHOOSE i \in bad : \A j \in bad : i <= j) - 1)

\* memorystore.py:408-444: build the header and write the file; a row with
\* a key outside the header makes DictWriter.writerow raise
WriteCSV ==
  /\ cphase = "header"
  /\ header' = header_of(all_rows)
  /\ output' = csv_lines(header_of(all_rows),
                         Writable(header_of(all_rows), all_rows))
  /\ cphase' = IF Writable(header_of(all_rows), all_rows) = all_rows
               THEN "done" ELSE "crashed"
  /\ UNCHANGED << table, table_order, cap_by_inst, product, ts, nseries,
                  outcome, rows, all_rows, raises >>
  /\ UNCHANGED mvars

\* ----------------------------------------------- collector specifications
\* resource labels of a node with both id labels
Node(inst, node) == ("instance_id" :> inst) @@ ("node_id" :> node)

\* one sample of a series: start time, wire representation, number (a double
\* in units of 1/Den, an int64 as a whole number)
Sample(t, kind, v) == [t |-> t, kind |-> kind, v |-> v]

\* the metric labels of a series with and without a command name
CollectMetricLabels == { "cmd" :> "get", EmptyDict }

\* command series of a whole run: two nodes of one instance, rate 1 + 1/Den
CollectCmdSeries ==
  { Series(Node("i1", n), m, << Sample(1, "double", Den + 1) >>) :
      n \in {"n1", "n2"}, m \in CollectMetricLabels }

\* memory-usage series of a whole run
CollectMemSeries ==
  { Series(Node("i1", n), EmptyDict, << Sample(1, "int64", 2) >>) :
      n \in {"n1", "n2"} }

\* capacity series of a whole run: of the instance, or of another one
CollectCapSeries ==
  { Series("instance_id" :> i, EmptyDict, << Sample(1, "int64", 5) >>) :
      i \in {"i1", "i2"} }

\* the start of main; the message library's accessors raise or not, as R allows
StartOfMain(R) ==
  /\ points = EmptyDict
  /\ ts_order = << >>
  /\ processed_points = EmptyDict
  /\ dropped = 0
  /\ commandstats = EmptyDict
  /\ pc = "collect"
  /\ CollectorStart
  /\ raises \in R

\* a whole run reads every sample in the representation its loop tries
\* first, so that the accessors never meet the other representation
InitCollect == StartOfMain({FALSE})

\* memorystore.py:304-444: main over the three products
NextCollect ==
  \/ \E s \in CollectCmdSeries : AccumulateStep(s)
  \/ \E fail \in BOOLEAN : CommandsEnd(fail)
  \/ \E s \in CollectMemSeries : AttachStep(s)
  \/ \E fail \in BOOLEAN : DiscoverEnd(fail)
  \/ \E fail \in BOOLEAN : MemoryEnd(fail)
  \/ \E s \in CollectCapSeries : CapacityStep(s)
  \/ \E fail \in BOOLEAN : CapacityEnd(fail)
  \/ Return
  \/ Extend
  \/ WriteCSV

SpecCollect == InitCollect /\ [][NextCollect]_vars

\* resource labels of the series of the label runs: no instance or cluster
\* id; no node id; every label under its first name; the same node under the
\* second names, with a role; the same node with nothing but its ids, behind
\* labels that are empty
LabelResources ==
  { "node_id" :> "n1",
    "instance_id" :> "i1",
    Node("i1", "n1") @@ ("region" :> "r1") @@ ("zone" :> "z1")
                     @@ ("node_type" :> "t1"),
    ("cluster_id" :> "i1") @@ ("shard_id" :> "n1") @@ ("location" :> "r2")
                           @@ ("tier" :> "t2") @@ ("role" :> "replica"),
    ("instance_id" :> "") @@ ("resource_name" :> "i1") @@ ("node_id" :> "n1")
                          @@ ("region" :> "") }

\* metric labels of the series of the label runs: a role or none, a command
\* name or none
LabelMetrics ==
  { r @@ c : r \in { EmptyDict, "role" :> "primary", "role" :> "replica",
                     "role" :> "arbiter" },
             c \in { EmptyDict, "cmd" :> "get" } }

LabelCmdSeries ==
  { Series(r, m, << Sample(1, "double", Den) >>) :
      r \in LabelResources, m \in LabelMetrics }

LabelMemSeries ==
  { Series(r, EmptyDict, << Sample(1, "int64", 2) >>) : r \in LabelResources }

InitLabels == StartOfMain({FALSE})

\* memorystore.py:319-353: the two loops over labelled series of one product
NextLabels ==
  \/ \E s \in LabelCmdSeries : AccumulateStep(s)
  \/ \E fail \in BOOLEAN : CommandsEnd(fail)
  \/ \E s \in LabelMemSeries : AttachStep(s)
  \/ \E fail \in BOOLEAN : DiscoverEnd(fail)
  \/ \E fail \in BOOLEAN : MemoryEnd(fail)

SpecLabels == InitLabels /\ [][NextLabels]_vars

\* resource labels of the series of one node (i1, n1): every label under its
\* first name; other values under the second names, with a role; nothing but
\* the ids, behind labels that are empty
StickyResources ==
  { Node("i1", "n1") @@ ("region" :> "r1") @@ ("zone" :> "z1")
                     @@ ("node_type" :> "t1"),
    ("cluster_id" :> "i1") @@ ("shard_id" :> "n1") @@ ("location" :> "r2")
                           @@ ("tier" :> "t2") @@ ("role" :> "replica"),
    ("instance_id" :> "") @@ ("resource_name" :> "i1") @@ ("node_id" :> "n1")
                          @@ ("region" :> "") }

\* metric labels of these series: with or without a role and a command name
StickyMetrics ==
  { EmptyDict, "role" :> "primary", "cmd" :> "get",
    ("role" :> "arbiter") @@ ("cmd" :> "get") }

StickyCmdSeries ==
  { Series(r, m, << Sample(1, "double", Den) >>) :
      r \in StickyResources, m \in StickyMetrics }

InitSticky == StartOfMain({FALSE})

\* memorystore.py:147-211 and 319-330: the loop of _accumulate_commands over
\* series of one node
NextSticky ==
  \/ \E s \in StickyCmdSeries : AccumulateStep(s)
  \/ \E fail \in BOOLEAN : CommandsEnd(fail)

SpecSticky == InitSticky /\ [][NextSticky]_vars

\* samples of the decoding runs: doubles, a whole number and a value that is
\* neither (a string, a distribution)
DecodeSamples ==
  { Sample(1, "double", 1), Sample(1, "double", Den + 1),
    Sample(2, "double", Den + 1), Sample(1, "int64", 2), Sample(1, "other", 0) }

\* metric labels with the command name under each of the three names
DecodeMetrics ==
  { "cmd" :> "get", "command" :> "set",
    ("cmd" :> "") @@ ("command_name" :> "get") }

\* command series of one node: one sample, or two samples of a series
DecodeCmdSeries ==
  { Series(Node("i1", "n1"), m, << p >>) :
      m \in DecodeMetrics, p \in DecodeSamples }
  \cup
  { Series(Node("i1", "n1"), "cmd" :> "get", << p, Sample(1, "double", Den) >>) :
      p \in { Sample(1, "double", 1), Sample(2, "int64", 2) } }

\* numbers of memory and capacity samples: whole, fractional, negative, none
ScalarSamples ==
  { Sample(1, "int64", 1), Sample(1, "int64", 3), Sample(1, "int64", 0 - 1),
    Sample(1, "double", (2 * Den) + 1), Sample(1, "other", 0) }

DecodeMemSeries ==
  { Series(Node("i1", "n1"), EmptyDict, << p >>) : p \in ScalarSamples }
  \cup { Series(Node("i1", "n2"), EmptyDict, << Sample(1, "int64", 3) >>),
         Series(Node("i1", "n1"), EmptyDict,
                << Sample(1, "int64", 1), Sample(2, "int64", 3),
                   Sample(3, "int64", 2) >>) }

DecodeCapSeries ==
  { Series("instance_id" :> "i1", EmptyDict, << p >>) : p \in ScalarSamples }
  \cup { Series("instance_id" :> "i2", EmptyDict, << Sample(1, "int64", 3) >>) }

InitDecode == StartOfMain(BOOLEAN)

\* memorystore.py:319-360: the three queries of one product, with samples in
\* either representation
NextDecode ==
  \/ \E s \in DecodeCmdSeries : AccumulateStep(s)
  \/ \E fail \in BOOLEAN : CommandsEnd(fail)
  \/ \E s \in DecodeMemSeries : AttachStep(s)
  \/ \E fail \in BOOLEAN : DiscoverEnd(fail)
  \/ \E fail \in BOOLEAN : MemoryEnd(fail)
  \/ \E s \in DecodeCapSeries : CapacityStep(s)
  \/ \E fail \in BOOLEAN : CapacityEnd(fail)

SpecDecode == InitDecode /\ [][NextDecode]_vars

\* command series of the point runs: two nodes of one instance, two commands
\* ('sort' is in three categories), two start times; the API returns the
\* samples of a series newest first
PointCmdSeries ==
  { Series(Node("i1", "n1"), "cmd" :> "get", << Sample(1, "double", Den + 1) >>),
    Series(Node("i1", "n1"), "cmd" :> "get",
           << Sample(2, "double", 1), Sample(1, "double", Den) >>),
    Series(Node("i1", "n1"), "cmd" :> "sort", << Sample(2, "double", 2 * Den) >>),
    Series(Node("i1", "n2"), "cmd" :> "get", << Sample(1, "double", Den) >>),
    Series(Node("i1", "n2"), "cmd" :> "sort", << Sample(2, "double", Den + 1) >>) }

InitPoints == StartOfMain({FALSE})

\* memorystore.py:304-366: collect_for_product for one product whose memory
\* and capacity queries bring nothing
NextPoints ==
  \/ \E s \in PointCmdSeries : AccumulateStep(s)
  \/ \E fail \in BOOLEAN : CommandsEnd(fail)
  \/ \E fail \in BOOLEAN : DiscoverEnd(fail)
  \/ \E fail \in BOOLEAN : MemoryEnd(fail)
  \/ \E fail \in BOOLEAN : CapacityEnd(fail)
  \/ Return

SpecPoints == InitPoints /\ [][NextPoints]_vars

\* command series of the capacity runs: one node of instance i1
CapacityCmdSeries ==
  { Series(Node("i1", "n1"), "cmd" :> "get", << Sample(1, "double", Den) >>) }

\* memory-usage series of the capacity runs: a second node of i1 and a node
\* of i2, both unknown to the commands query
CapacityMemSeries ==
  { Series(Node(i, "n2"), EmptyDict, << Sample(1, "int64", 2) >>) :
      i \in {"i1", "i2"} }

\* capacity series of the capacity runs: of i1 with one or two int64 samples
\* or a double one; of i3, which has no node
CapacityCapSeries ==
  { Series("instance_id" :> "i1", EmptyDict, << Sample(1, "int64", 5) >>),
    Series("instance_id" :> "i1", EmptyDict,
           << Sample(2, "int64", 3), Sample(1, "int64", 7) >>),
    Series("instance_id" :> "i1", EmptyDict,
           << Sample(1, "double", 2 * Den + 1) >>),
    Series("instance_id" :> "i3", EmptyDict, << Sample(1, "int64", 5) >>) }

InitCapacity == StartOfMain(BOOLEAN)

\* memorystore.py:304-366: collect_for_product for one product
NextCapacity ==
  \/ \E s \in CapacityCmdSeries : AccumulateStep(s)
  \/ \E fail \in BOOLEAN : CommandsEnd(fail)
  \/ \E s \in CapacityMemSeries : AttachStep(s)
  \/ \E fail \in BOOLEAN : DiscoverEnd(fail)
  \/ \E fail \in BOOLEAN : MemoryEnd(fail)
  \/ \E s \in CapacityCapSeries : CapacityStep(s)
  \/ \E fail \in BOOLEAN : CapacityEnd(fail)
  \/ Return

SpecCapacity == InitCapacity /\ [][NextCapacity]_vars

\* ------------------------------------------------------- claim vocabulary
RECURSIVE SumOver(_, _)
\* the exact sum of f over the keys in S (in units of 1/Den)
SumOver(f, S) ==
  IF S = {} THEN 0
  ELSE LET k == CHOOSE x \in S : TRUE IN f[k] + SumOver(f, S \ {k})

\* the raw points have been classified and no vector was altered since
Classified == pc \in {"classified", "reduced"} /\ dropped = 0

\* every rate of the raw point p is a whole number of calls per second
WholeRates(p) == \A k \in DOMAIN p : p[k] % Den = 0

\* the raw point p without the command u
Without(p, u) == [k \in DOMAIN p \ {u} |-> p[k]]

\* ------------------------------------------------------------------ claims

\* C1 (as stated): for every raw point the Throughput output equals the sum
\* of all values of the raw point.
C1_ThroughputIsExactSum ==
  Classified =>
    \A t \in DOMAIN points :
      Den * processed_points[t]["Throughput (Ops)"]
        = SumOver(points[t], DOMAIN points[t])

\* C1 (amended): the Throughput output equals the sum of ALL values of the raw
\* point, commands outside every category included, rounded to the nearest
\* integer (ties to even); it equals the sum itself when the sum is whole.
C1_ThroughputIsRoundedSum ==
  Classified =>
    \A t \in DOMAIN points :
      LET total == SumOver(points[t], DOMAIN points[t])
          out == processed_points[t]["Throughput (Ops)"]
      IN  /\ out = round(total)
          /\ 2 * (Den * out - total) <= Den
          /\ 2 * (total - Den * out) <= Den
          /\ total % Den = 0 => Den * out = total

\* a classified raw point holding an unknown command and a fractional sum
C1_Witness ==
  /\ pc = "classified"
  /\ \E t \in DOMAIN points :
       /\ UnknownCmd \in DOMAIN points[t]
       /\ points[t][UnknownCmd] > 0
       /\ Cardinality(DOMAIN points[t]) > 1
       /\ SumOver(points[t], DOMAIN points[t]) % Den # 0

\* C2 (as stated): every non-Throughput category output equals the sum of the
\* rates of the category's members present in the raw point.
C2_CategoryIsExactSum ==
  Classified =>
    \A t \in DOMAIN points : \A c \in ListCategories :
      Den * processed_points[t][c]
        = SumOver(points[t], Members(c) \cap DOMAIN points[t])

\* no argument list names a command twice
NoArgumentTwice ==
  \A c \in ListCategories : Cardinality(Members(c)) = Len(ArgsOf(c))

\* C2 (amended): every non-Throughput category output equals the sum of
\* rawPoint[cmd] over the set of the category's members present in the raw
\* point, each counted once (no argument list names a command twice), rounded
\* to the nearest integer; absent members and non-members add nothing.
C2_CategoryIsRoundedMemberSum ==
  /\ NoArgumentTwice
  /\ Classified =>
       \A t \in DOMAIN points : \A c \in ListCategories :
         LET part == SumOver(points[t], Members(c) \cap DOMAIN points[t])
         IN  /\ processed_points[t][c] = round(part)
             /\ part % Den = 0 => Den * processed_points[t][c] = part

\* a classified raw point with a member and a non-member of HashBasedCmds
C2_Witness ==
  /\ pc = "classified"
  /\ \E t \in DOMAIN points :
       /\ DOMAIN points[t] = {"hget", "get"}
       /\ points[t]["hget"] = 2
       /\ points[t]["get"] = 3
       /\ processed_points[t]["HashBasedCmds"] = round(2)

\* the values of category c in the vectors of the window w that carry c
WindowValues(w, c) == { w[t][c] : t \in { x \in DOMAIN w : c \in DOMAIN w[x] } }

\* the largest element of a non-empty set of integers
MaxOf(S) == CHOOSE m \in S : \A v \in S : m >= v

\* C3 (as stated): for every non-empty window of vectors produced by
\* processMetricPoint and every category, the summary equals the maximum of
\* the category over the window.
C3_SummaryIsWindowMax ==
  (pc = "reduced" /\ dropped = 0 /\ ts_order # << >>) =>
    \A c \in Categories :
      commandstats[c] = MaxOf(WindowValues(processed_points, c))

\* C3 (amended): for every non-empty window of vectors produced by
\* processMetricPoint and every one of the 18 categories C, the summary value
\* of C equals the maximum of 0 and of v[C] over all vectors v of the window;
\* it is the window maximum whenever that maximum is not negative.
C3_SummaryIsWindowMaxFlooredAtZero ==
  (pc = "reduced" /\ dropped = 0 /\ ts_order # << >>) =>
    \A c \in Categories :
      LET m == MaxOf(WindowValues(processed_points, c))
      IN  /\ commandstats[c] = MaxOf(WindowValues(processed_points, c) \cup {0})
          /\ m >= 0 => commandstats[c] = m

\* a reduced window of two timestamps whose maxima come from different
\* timestamps
C3_Witness ==
  /\ pc = "reduced" /\ dropped = 0 /\ Len(ts_order) = 2
  /\ processed_points[1]["Throughput (Ops)"] > processed_points[2]["Throughput (Ops)"]
  /\ processed_points[1]["GetTypeCmds"] < processed_points[2]["GetTypeCmds"]
  /\ commandstats["Throughput (Ops)"] = processed_points[1]["Throughput (Ops)"]
  /\ commandstats["GetTypeCmds"] = processed_points[2]["GetTypeCmds"]

\* C4: the summary value of a category is greater than or equal to the value
\* of that category at every timestamp of the window whose vector carries it.
C4_SummaryNotBelowAnyPoint ==
  pc = "reduced" =>
    \A t \in DOMAIN processed_points : \A c \in DOMAIN processed_points[t] :
      commandstats[c] >= processed_points[t][c]

\* a reduced window where the summary is strictly above a positive value of
\* one timestamp
C4_Witness ==
  /\ pc = "reduced" /\ Len(ts_order) >= 2
  /\ \E t \in DOMAIN processed_points : \E c \in DOMAIN processed_points[t] :
       /\ processed_points[t][c] > 0
       /\ commandstats[c] > processed_points[t][c]

\* C5: reducing an empty window yields exactly the 18 category keys, every
\* one with value 0.
C5_EmptyWindowIsAllZero ==
  (pc = "reduced" /\ ts_order = << >>) =>
    /\ DOMAIN commandstats = Categories
    /\ Cardinality(DOMAIN commandstats) = 18
    /\ \A c \in Categories : commandstats[c] = 0

\* the empty window has been reduced
C5_Witness ==
  pc = "reduced" /\ ts_order = << >> /\ processed_points = EmptyDict

\* C6: every vector returned by processMetricPoint and by processNodeStats
\* has exactly the 18 category names as keys, also when vectors of the window
\* lack keys; a category carried by no vector of the window is emitted as 0.
C6_AlwaysEighteenKeys ==
  /\ Cardinality(Categories) = 18
  /\ (pc = "classified" /\ dropped = 0) =>
       \A t \in DOMAIN processed_points : DOMAIN processed_points[t] = Categories
  /\ pc = "reduced" =>
       /\ DOMAIN commandstats = Categories
       /\ \A c \in Categories :
            WindowValues(processed_points, c) = {} => commandstats[c] = 0

\* a reduced non-empty window in which no vector carries GetTypeCmds although
\* a get command was observed
C6_Witness ==
  /\ pc = "reduced" /\ ts_order # << >>
  /\ WindowValues(processed_points, "GetTypeCmds") = {}
  /\ \E t \in DOMAIN points : "get" \in DOMAIN points[t] /\ points[t]["get"] >= Den
  /\ commandstats["GetTypeCmds"] = 0
  /\ commandstats["Throughput (Ops)"] > 0

\* C7: classifying the empty raw point yields all 18 categories with value 0.
C7_EmptyPointIsAllZero ==
  Classified =>
    \A t \in DOMAIN points :
      points[t] = EmptyDict =>
        /\ DOMAIN processed_points[t] = Categories
        /\ \A c \in Categories : processed_points[t][c] = 0

\* the empty raw point has been classified
C7_Witness ==
  /\ pc = "classified" /\ 1 \in DOMAIN points /\ points[1] = EmptyDict
  /\ 1 \in DOMAIN processed_points

\* C8 (as stated): adding an unknown command u with rate r to a raw point
\* changes Throughput by exactly r and leaves the 17 other categories equal.
C8_UnknownAddsExactlyItsRate ==
  Classified =>
    \A t \in DOMAIN points :
      UnknownCmd \in DOMAIN points[t] =>
        LET base == processMetricPoint(Without(points[t], UnknownCmd))
        IN  /\ \A c \in ListCategories : processed_points[t][c] = base[c]
            /\ Den * (processed_points[t]["Throughput (Ops)"] - base["Throughput (Ops)"])
                 = points[t][UnknownCmd]

\* C8 (amended): adding an unknown command u with rate r to a raw point p
\* leaves the 17 non-Throughput categories equal and raises no error;
\* Throughput becomes round(sum(p) + r), which differs from the Throughput of
\* p by exactly r whenever all rates of the point are whole numbers.
C8_UnknownChangesOnlyThroughput ==
  Classified =>
    \A t \in DOMAIN points :
      UnknownCmd \in DOMAIN points[t] =>
        LET rest == Without(points[t], UnknownCmd)
            base == processMetricPoint(rest)
            r == points[t][UnknownCmd]
        IN  /\ \A c \in ListCategories : processed_points[t][c] = base[c]
            /\ processed_points[t]["Throughput (Ops)"]
                 = round(SumOver(rest, DOMAIN rest) + r)
            /\ WholeRates(points[t]) =>
                 Den * (processed_points[t]["Throughput (Ops)"] - base["Throughput (Ops)"]) = r

\* a classified point holding a known command and an unknown one with a
\* whole non-zero rate
C8_Witness ==
  /\ pc = "classified"
  /\ \E t \in DOMAIN points :
       /\ DOMAIN points[t] = {"get", UnknownCmd}
       /\ WholeRates(points[t])
       /\ points[t][UnknownCmd] > 0 /\ points[t]["get"] > 0
       /\ processed_points[t]["Throughput (Ops)"] > processed_points[t]["GetTypeCmds"]

\* the categories that list the command cmd
CategoriesOf(cmd) == { c \in ListCategories : cmd \in Members(c) }

GetCategories == CategoriesOf("get")

SortCategories == CategoriesOf("sort")

\* C9: a command that is a member of several categories adds its full rate
\* to each of them: 'get' to GetTypeCmds and StringBasedCmds, 'sort' to
\* GetTypeCmds, SetTypeCmds and KeyBasedCmds.
C9_OverlapContributesFully ==
  /\ GetCategories = {"GetTypeCmds", "StringBasedCmds"}
  /\ SortCategories = {"GetTypeCmds", "SetTypeCmds", "KeyBasedCmds"}
  /\ Classified =>
       \A t \in DOMAIN points : \A cmd \in {"get", "sort"} \cap DOMAIN points[t] :
         \A c \in CategoriesOf(cmd) :
           LET rest == Without(points[t], cmd)
           IN  processed_points[t][c]
                 = round(get_command_by_args(rest, ArgsOf(c)) + points[t][cmd])

\* a classified point holding both get and sort with whole positive rates
C9_Witness ==
  /\ pc = "classified"
  /\ \E t \in DOMAIN points :
       /\ DOMAIN points[t] = {"get", "sort"}
       /\ points[t]["get"] = Den /\ points[t]["sort"] = Den
       /\ processed_points[t]["GetTypeCmds"] = 2
       /\ processed_points[t]["StringBasedCmds"] = 1
       /\ processed_points[t]["SetTypeCmds"] = 1
       /\ processed_points[t]["KeyBasedCmds"] = 1

\* C10: for a raw point whose rates are all non-negative, each of the 17
\* non-Throughput category values is at most the Throughput value, before
\* and after rounding.
C10_CategoryAtMostThroughput ==
  Classified =>
    \A t \in DOMAIN points :
      (\A k \in DOMAIN points[t] : points[t][k] >= 0) =>
        \A c \in ListCategories :
          /\ processed_points[t][c] <= processed_points[t]["Throughput (Ops)"]
          /\ get_command_by_args(points[t], ArgsOf(c)) <= get_all_commands(points[t])

\* a classified non-negative point where GetTypeCmds equals Throughput and
\* HashBasedCmds is strictly below it
C10_Witness ==
  /\ pc = "classified"
  /\ \E t \in DOMAIN points :
       /\ DOMAIN points[t] = {"get", "hget"}
       /\ points[t]["get"] > 0 /\ points[t]["hget"] > 0
       /\ processed_points[t]["GetTypeCmds"] = processed_points[t]["Throughput (Ops)"]
       /\ processed_points[t]["HashBasedCmds"] < processed_points[t]["Throughput (Ops)"]
       /\ processed_points[t]["HashBasedCmds"] > 0

\* the orders in which the timestamps in S can be iterated
Orders(S) ==
  { o \in [1..Cardinality(S) -> S] :
      \A i, j \in 1..Cardinality(S) : i # j => o[i] # o[j] }

\* C11: processNodeStats is order-independent: iterating the timestamps of
\* the window in any order yields the same summary vector.
C11_OrderIndependent ==
  pc = "reduced" =>
    \A o \in Orders(DOMAIN processed_points) :
      processNodeStats(processed_points, o) = commandstats

\* a reduced window of two different vectors, neither of which is the summary
C11_Witness ==
  /\ pc = "reduced" /\ Len(ts_order) = 2
  /\ processed_points[1] # processed_points[2]
  /\ commandstats # processed_points[1]
  /\ commandstats # processed_points[2]
  /\ \E c \in DOMAIN processed_points[1] : processed_points[1][c] > 0

\* the window w restricted to the timestamps in S, in the order of ts_order
OrderOf(S) == SelectSeq(ts_order, LAMBDA t : t \in S)

\* reduce(A) and reduce(B) put into a window of its own and reduced again
ReduceSplit(A, B) ==
  LET ra == processNodeStats(processed_points, OrderOf(A))
      rb == processNodeStats(processed_points, OrderOf(B))
  IN  processNodeStats(<< ra, rb >>, << 1, 2 >>)

\* C12: processNodeStats is associative over window splits: reducing the
\* window of reduce(A) and reduce(B) gives reduce(W) for every split of W
\* into A and B; in particular reducing the one-vector window of reduce(W)
\* gives reduce(W) again.
C12_AssociativeOverSplits ==
  pc = "reduced" =>
    /\ \A A \in SUBSET DOMAIN processed_points :
         ReduceSplit(A, DOMAIN processed_points \ A) = commandstats
    /\ processNodeStats(<< commandstats >>, << 1 >>) = commandstats

\* a reduced window of two timestamps whose two parts have different summaries
C12_Witness ==
  /\ pc = "reduced" /\ Len(ts_order) = 2
  /\ processNodeStats(processed_points, << 1 >>) # processNodeStats(processed_points, << 2 >>)
  /\ processNodeStats(processed_points, << 1 >>) # commandstats
  /\ processNodeStats(processed_points, << 2 >>) # commandstats

\* C13: processMetricPoint and processNodeStats do not modify their
\* argument, and every call of processNodeStats starts from a fresh all-zero
\* vector: its result is determined by its own window, whatever an earlier
\* call returned.
C13_NoSideEffects ==
  /\ [][(pc = "collect" /\ pc' = "classified") => points' = points]_vars
  /\ [][(pc = "classified" /\ pc' = "reduced") =>
          /\ points' = points
          /\ processed_points' = processed_points
          /\ \A c \in Categories :
               commandstats'[c] = MaxOf(WindowValues(processed_points, c) \cup {0})]_vars

\* a second node is about to be reduced while the summary of the first one,
\* which is larger, still exists
C13_Witness ==
  /\ pc = "classified" /\ ts_order # << >>
  /\ commandstats # EmptyDict
  /\ commandstats["Throughput (Ops)"] > processed_points[1]["Throughput (Ops)"]
  /\ processed_points[1]["Throughput (Ops)"] > 0

\* ------------------------------------------------------------------ C14
\* the rows of (cluster id, node id) k among the rows rs
RowsOf(rs, k) ==
  { i \in 1..Len(rs) : rs[i]["ClusterId"] = k[1] /\ rs[i]["NodeId"] = k[2] }

\* C14: when collect_for_product returns, every node of the table that has no
\* command point has a row, and that row holds the value 0 in each of the 18
\* category columns and, when no capacity series was found for its cluster
\* id, no capacity other than 0.
C14_ZeroPointNodeHasZeroColumns ==
  [][(cphase = "compute" /\ cphase' = "returned") =>
       \A k \in DOMAIN table :
          DOMAIN table[k]["points"].m = {} =>
            /\ RowsOf(rows', k) # {}
            /\ \A i \in RowsOf(rows', k) :
                 /\ \A c \in Categories :
                      c \in DOMAIN rows'[i] /\ rows'[i][c] = 0
                 /\ k[1] \notin DOMAIN cap_by_inst =>
                      ("MaxMemory" \in DOMAIN rows'[i] => rows'[i]["MaxMemory"] = 0)
    ]_vars

\* ------------------------------------------------------------------ C15
\* query q of the running product brought no series: it raised, returned
\* nothing, or was not made
NoData(q) == q \notin DOMAIN outcome \/ outcome[q] # "data"

\* the text the file holds for column k of a row
Text(row, k) == IF k \in DOMAIN row THEN cell(k, row[k]) ELSE ""

\* C15: no query failure ends the export; when collect_for_product returns
\* there is exactly one row for every node found by any query, at least one
\* row if a commands or memory-usage query brought a series, and the columns
\* fed by a query that raised or returned nothing hold 0 or the empty string.
C15_QueryFailureDefaults ==
  /\ cphase # "aborted"
  /\ cphase = "returned" =>
       /\ Len(rows) = Cardinality(DOMAIN table)
       /\ \A k \in DOMAIN table : Cardinality(RowsOf(rows, k)) = 1
       /\ (\E q \in {"commands", "discover", "memory"} : ~NoData(q))
            => Len(rows) > 0
       /\ \A i \in 1..Len(rows) :
            /\ NoData("capacity") => Text(rows[i], "MaxMemory") \in {"", "0"}
            /\ (NoData("memory") /\ NoData("discover"))
                 => Text(rows[i], "BytesUsedForCache") \in {"", "0"}
            /\ NoData("commands") =>
                 /\ \A c \in Categories : Text(rows[i], c) \in {"", "0"}
                 /\ \A f \in {"NodeRole", "NodeType", "Region", "Zone"} :
                      Text(rows[i], f) = ""

\* the commands query and the capacity query raised, the discovery query
\* found a node, and the call returned its row
C15_Witness ==
  /\ cphase = "returned"
  /\ "commands" \in DOMAIN outcome /\ outcome["commands"] = "failed"
  /\ "capacity" \in DOMAIN outcome /\ outcome["capacity"] = "failed"
  /\ "discover" \in DOMAIN outcome /\ outcome["discover"] = "data"
  /\ Len(rows) > 0

\* ------------------------------------------------------------------ C16
\* C16: a run in which no query of any product brings a series does not fail:
\* the file written holds the header line and nothing else, and the header is
\* the 12 leading columns.
C16_EmptyRunWritesHeaderOnly ==
  nseries = 0 =>
    /\ cphase \notin {"crashed", "aborted"}
    /\ all_rows = << >>
    /\ cphase = "done" => (header = base_order /\ output = << header >>)

\* the file of a run without any series has been written
C16_Witness ==
  /\ cphase = "done"
  /\ nseries = 0
  /\ product = Len(Products)
  /\ Len(output) = 1

\* ------------------------------------------------------------------ C17
\* the rows that carry command statistics
WithStats(rs) == { i \in 1..Len(rs) : DOMAIN rs[i] \cap Categories # {} }

\* C17, as stated: the header written is always the 12 leading columns
\* followed by the 18 category columns in the order of the category list.
C17_HeaderAlwaysAllColumns ==
  cphase \in {"done", "crashed"} => header = base_order \o CategoryOrder

\* C17, amended: the header is the 12 leading columns, followed by the 18
\* category columns in the order of the category list when some row carries
\* command statistics and by no further column otherwise, whatever rows were
\* collected and in whatever order.
C17_HeaderFollowsRows ==
  cphase \in {"done", "crashed"} =>
    header = base_order \o
             (IF WithStats(all_rows) # {} THEN CategoryOrder ELSE << >>)

\* a file was written whose first row has no command statistics and whose
\* later rows, of two products, have them
C17_Witness ==
  /\ cphase = "done"
  /\ Len(all_rows) = 3
  /\ WithStats(all_rows) = {2, 3}
  /\ all_rows[2]["InstanceType"] # all_rows[3]["InstanceType"]
  /\ Len(header) = 30

\* ------------------------------------------------------------------ C18
\* label n of the labels ls is there and not empty
HasLabel(ls, n) == n \in DOMAIN ls /\ ls[n] # ""

\* the role label of a series: of the metric, else of the resource, else ""
RoleLabel(s) ==
  IF HasLabel(s.metric, "role") THEN s.metric["role"]
  ELSE IF HasLabel(s.resource, "role") THEN s.resource["role"]
  ELSE ""

\* the loop of _accumulate_commands has just worked on a series
InCommandsLoop == cphase = "commands" /\ ts # None

\* C18: after _accumulate_commands has worked on a series, the NodeRole of
\* its node is "Master" for the role label "primary", "Replica" for "replica"
\* and the label itself for any other role label that is not empty.
C18_RoleNormalised ==
  InCommandsLoop =>
    LET role == RoleLabel(ts[1])
        entry == table[KeyOf(ts[1].resource)]
    IN  /\ role = "primary" => entry["NodeRole"] = "Master"
        /\ role = "replica" => entry["NodeRole"] = "Replica"
        /\ role \notin {"", "primary", "replica"} => entry["NodeRole"] = role

\* a series whose metric says "primary" and whose resource says "replica"
\* made its node a "Master"
C18_Witness ==
  /\ InCommandsLoop
  /\ HasLabel(ts[1].metric, "role") /\ ts[1].metric["role"] = "primary"
  /\ HasLabel(ts[1].resource, "role") /\ ts[1].resource["role"] = "replica"
  /\ table[KeyOf(ts[1].resource)]["NodeRole"] = "Master"

\* ------------------------------------------------------------------ C19
\* one of the labels named in ns is there and not empty
HasAny(ls, ns) == \E n \in ns : HasLabel(ls, n)

\* the labels that feed each identity field
FieldLabels ==
  ("Region" :> {"region", "location"}) @@ ("Zone" :> {"zone"}) @@
  ("NodeType" :> {"node_type", "cluster_node_type", "tier", "service_tier",
                  "instance_type"}) @@
  ("NodeRole" :> {"role"})

\* series s carries no label for identity field f
Lacks(s, f) ==
  /\ ~HasAny(s.resource, FieldLabels[f])
  /\ f = "NodeRole" => ~HasLabel(s.metric, "role")

\* a loop of _accumulate_commands or _attach_memory_usage has just worked on
\* a series
InSeriesLoop == cphase \in {"commands", "discover", "memory"} /\ ts # None

\* C19: a series without any instance or cluster id label, or without any
\* node id label, is worked on like any other; its node entry carries
\* "unknown" for the missing id, and a region, zone, node-type or role label
\* that is missing leaves the field as it was: the empty string for a node
\* that is new.
C19_MissingLabelsGetPlaceholders ==
  /\ [](InSeriesLoop =>
          LET rl == ts[1].resource
              k == KeyOf(rl)
          IN  /\ k \in DOMAIN table
              /\ table[k]["ClusterId"] = k[1]
              /\ table[k]["NodeId"] = k[2]
              /\ ~HasAny(rl, {"instance_id", "cluster_id", "resource_name"})
                   => k[1] = "unknown"
              /\ ~HasAny(rl, {"node_id", "shard_id"}) => k[2] = "unknown")
  /\ [][nseries' = nseries + 1 =>
          LET s == ts'[1]
              k == KeyOf(s.resource)
          IN  \A f \in DOMAIN FieldLabels :
                (Lacks(s, f) \/ cphase # "commands") =>
                  table'[k][f] = (IF k \in DOMAIN table THEN table[k][f] ELSE "")
     ]_vars

\* a command series with a node id and nothing else made the node
\* ("unknown", "n1"), whose identity fields are empty
C19_Witness ==
  /\ InCommandsLoop
  /\ ts[1].resource = ("node_id" :> "n1")
  /\ ~HasLabel(ts[1].metric, "role")
  /\ << "unknown", "n1" >> \in DOMAIN table
  /\ \A f \in DOMAIN FieldLabels : table[<< "unknown", "n1" >>][f] = ""

\* ------------------------------------------------------------------ C20
\* the rate a sample stands for: the double itself, the whole number as a
\* double, 0.0 for a value that is neither
Given(p) ==
  IF p.kind = "double" THEN p.v
  ELSE IF p.kind = "int64" THEN p.v * Den
  ELSE 0

\* C20: after _accumulate_commands has worked on a series with a command
\* name, the rate stored for each of its start times is the number of the
\* (last) sample at that time, in whichever representation it came, and 0.0
\* only for a sample that has neither representation.
C20_SampleRecordedAsGiven ==
  (InCommandsLoop /\ truthy(cmd_of(ts[1].metric))) =>
    LET samples == ts[1].points
        cmd == cmd_of(ts[1].metric)[1]
        stored == table[KeyOf(ts[1].resource)]["points"].m
    IN  \A i \in 1..Len(samples) :
          (\A j \in (i + 1)..Len(samples) : samples[j].t # samples[i].t) =>
            /\ samples[i].t \in DOMAIN stored
            /\ cmd \in DOMAIN stored[samples[i].t]
            /\ stored[samples[i].t][cmd] = Given(samples[i])

\* ------------------------------------------------------------------ C21
\* the raw points of node k of the table, by start time
RawPoints(k) == table[k]["points"].m

\* the exact sum of the raw point p over the members of category c (all
\* commands for Throughput), in units of 1/Den
PointSum(p, c) ==
  IF c = "Throughput (Ops)" THEN SumOver(p, DOMAIN p)
  ELSE SumOver(p, Members(c) \cap DOMAIN p)

\* collect_for_product returns
Returning == cphase = "compute" /\ cphase' = "returned"

\* C21 (as stated): when collect_for_product returns, the category columns of
\* every node with a command point are the maximum over the node's start
\* times of the per-timestamp sums.
C21_ColumnsAreMaxOfSums ==
  [][Returning =>
       \A k \in DOMAIN table :
          DOMAIN RawPoints(k) # {} =>
            \A i \in RowsOf(rows', k) : \A c \in Categories :
               Den * rows'[i][c]
                 = MaxOf({ PointSum(RawPoints(k)[t], c) : t \in DOMAIN RawPoints(k) })
    ]_vars

\* C21 (amended): when collect_for_product returns, every node with a command
\* point has one row whose category columns are processNodeStats of the map
\* start time -> processMetricPoint(raw point) of that node alone: for each
\* category the largest, over the node's start times, of the rounded
\* per-timestamp sum, and at least 0; no other node's points and no order of
\* the series enters.
C21_ColumnsAreNodeSummary ==
  [][Returning =>
       \A k \in DOMAIN table :
          DOMAIN RawPoints(k) # {} =>
            LET summary == processNodeStats(
                             [t \in DOMAIN RawPoints(k) |->
                                processMetricPoint(RawPoints(k)[t])],
                             table[k]["points"].o)
            IN  /\ Cardinality(RowsOf(rows', k)) = 1
                /\ \A i \in RowsOf(rows', k) :
                     /\ [c \in Categories |-> rows'[i][c]] = summary
                     /\ \A c \in Categories :
                          rows'[i][c]
                            = MaxOf({0} \cup
                                    { round(PointSum(RawPoints(k)[t], c)) :
                                        t \in DOMAIN RawPoints(k) })
    ]_vars

\* two nodes are returned with different summaries, one of them with 'sort'
\* counted as a read and as a write
C21_Witness ==
  /\ cphase = "returned"
  /\ \E i, j \in 1..Len(rows) :
       /\ rows[i]["NodeId"] # rows[j]["NodeId"]
       /\ "GetTypeCmds" \in DOMAIN rows[i] /\ "GetTypeCmds" \in DOMAIN rows[j]
       /\ rows[i]["Throughput (Ops)"] > rows[j]["Throughput (Ops)"]
       /\ rows[j]["Throughput (Ops)"] > 0
       /\ rows[i]["SetTypeCmds"] > 0
       /\ rows[j]["SetTypeCmds"] = 0

\* ------------------------------------------------------------------ C22
\* the whole number a sample stands for: the int64 itself, the double cut to
\* a whole number, 0 for a value that is neither
WholeOf(p) ==
  IF p.kind = "int64" THEN p.v
  ELSE IF p.kind = "double" THEN int(p.v)
  ELSE 0

\* the whole numbers of the samples of series s
WholesOf(s) == { WholeOf(s.points[i]) : i \in 1..Len(s.points) }

\* the memory usage stored for node k, 0 before any
UsageOf(tbl, k) ==
  IF k \in DOMAIN tbl
  THEN IF "BytesUsedForCache" \in DOMAIN tbl[k]
       THEN tbl[k]["BytesUsedForCache"] ELSE 0
  ELSE 0

\* _attach_memory_usage works on one more series
AttachesSeries == cphase \in {"discover", "memory"} /\ nseries' = nseries + 1

\* C22: BytesUsedForCache is a running maximum: every memory-usage series
\* leaves its node with the largest of the stored value, 0 and the series'
\* samples; the value never decreases, and the same series applied again
\* changes nothing.
C22_UsageIsRunningMax ==
  [][AttachesSeries =>
       LET k == KeyOf(ts'[1].resource)
       IN  /\ UsageOf(table', k)
                = MaxOf({0, UsageOf(table, k)} \cup WholesOf(ts'[1]))
           /\ \A j \in DOMAIN table : UsageOf(table', j) >= UsageOf(table, j)
           /\ ts' = ts => table' = table
    ]_vars

\* ------------------------------------------------------------------ C23
\* the capacity known for cluster id c, 0 before any
CapacityOf(cap, c) == IF c \in DOMAIN cap THEN cap[c] ELSE 0

\* _attach_capacity_scalar works on one more series
ReadsCapacity == cphase = "capacity" /\ nseries' = nseries + 1

\* C23: the capacity of a cluster id is the largest sample of all its
\* capacity series, and when collect_for_product returns, every row of a
\* cluster id that had a capacity series carries that capacity as MaxMemory,
\* the rows of nodes found only by the memory-usage query included; the rows
\* are those of the known nodes, so a capacity series of a cluster id without
\* a node adds none.
C23_CapacityIsClusterMax ==
  [][/\ ReadsCapacity =>
          LET c == inst_key(ts'[1].resource)
          IN  /\ c \in DOMAIN cap_by_inst'
              /\ cap_by_inst'[c]
                   = MaxOf({0, CapacityOf(cap_by_inst, c)} \cup WholesOf(ts'[1]))
              /\ \A d \in DOMAIN cap_by_inst' \ {c} :
                   d \in DOMAIN cap_by_inst /\ cap_by_inst'[d] = cap_by_inst[d]
     /\ Returning =>
          /\ \A i \in 1..Len(rows') :
               /\ << rows'[i]["ClusterId"], rows'[i]["NodeId"] >> \in DOMAIN table
               /\ rows'[i]["ClusterId"] \in DOMAIN cap_by_inst =>
                    /\ "MaxMemory" \in DOMAIN rows'[i]
                    /\ rows'[i]["MaxMemory"] = cap_by_inst[rows'[i]["ClusterId"]]
          /\ \A k \in DOMAIN table : Cardinality(RowsOf(rows', k)) = 1
    ]_vars

\* ------------------------------------------------------------------ C24
\* the three categories by kind of access
TypeCategories == {"GetTypeCmds", "SetTypeCmds", "OtherTypeCmds"}

\* every command of some category is in exactly one of the three, but 'sort',
\* which is a get and a set command
OneTypeButSort ==
  \A cmd \in KnownCommands :
    Cardinality(CategoriesOf(cmd) \cap TypeCategories)
      = IF cmd = "sort" THEN 2 ELSE 1

\* the rate of command cmd in the raw point p, 0 when absent
RateOf(p, cmd) == IF cmd \in DOMAIN p THEN p[cmd] ELSE 0

\* every rate of the raw point p is at least 0
NonNegative(p) == \A k \in DOMAIN p : p[k] >= 0

\* C24: for a raw point of whole rates, GetTypeCmds + SetTypeCmds +
\* OtherTypeCmds is the sum of the rates of all commands of some category
\* plus the rate of 'sort' once more, hence at most Throughput plus the rate
\* of 'sort' when no rate is negative.
C24_TypeSumCountsSortTwice ==
  /\ OneTypeButSort
  /\ Classified =>
       \A t \in DOMAIN points :
         WholeRates(points[t]) =>
           LET p == points[t]
               types == SumOver(processed_points[t], TypeCategories)
           IN  /\ Den * types
                    = SumOver(p, KnownCommands \cap DOMAIN p) + RateOf(p, "sort")
               /\ NonNegative(p) =>
                    Den * types
                      <= Den * processed_points[t]["Throughput (Ops)"]
                         + RateOf(p, "sort")

\* a classified raw point of whole rates in which 'sort' is counted twice
\* beside a command of no category
C24_Witness ==
  /\ pc = "classified"
  /\ \E t \in DOMAIN points :
       /\ DOMAIN points[t] = {"sort", UnknownCmd}
       /\ WholeRates(points[t])
       /\ points[t]["sort"] > 0
       /\ points[t][UnknownCmd] > 0
       /\ Den * SumOver(processed_points[t], TypeCategories)
            = 2 * points[t]["sort"]

\* ------------------------------------------------------------------ C25
\* the 14 categories by data structure
DataCategories == ListCategories \ TypeCategories

\* no command is in two data-structure categories
DataCategoriesDisjoint ==
  \A c, d \in DataCategories : c # d => Members(c) \cap Members(d) = {}

\* every command of a data-structure category has a kind of access
DataCategoriesTyped ==
  \A c \in DataCategories :
    Members(c) \subseteq UNION { Members(d) : d \in TypeCategories }

\* C25: the 14 data-structure categories have pairwise disjoint member sets,
\* each inside the union of the three access categories, so that for a raw
\* point of whole rates none of which is negative their 14 values add up to
\* at most Throughput.
C25_DataCategoriesPartition ==
  /\ Cardinality(DataCategories) = 14
  /\ DataCategoriesDisjoint
  /\ DataCategoriesTyped
  /\ Classified =>
       \A t \in DOMAIN points :
         (WholeRates(points[t]) /\ NonNegative(points[t])) =>
           SumOver(processed_points[t], DataCategories)
             <= processed_points[t]["Throughput (Ops)"]

\* a classified raw point of whole rates with commands of two data-structure
\* categories
C25_Witness ==
  /\ pc = "classified"
  /\ \E t \in DOMAIN points :
       /\ DOMAIN points[t] = {"get", "hget"}
       /\ WholeRates(points[t])
       /\ \A k \in DOMAIN points[t] : points[t][k] > 0
       /\ processed_points[t]["StringBasedCmds"] > 0
       /\ processed_points[t]["HashBasedCmds"] > 0
       /\ SumOver(processed_points[t], DataCategories)
            = processed_points[t]["Throughput (Ops)"]

\* ------------------------------------------------------------------ C26
\* the command points stored for node k, by start time
StoredPoints(tbl, k) ==
  IF k \in DOMAIN tbl THEN tbl[k]["points"].m ELSE EmptyDict

\* the rate stored at start time t for command c, if any
HasRate(pts, t, c) == IF t \in DOMAIN pts THEN c \in DOMAIN pts[t] ELSE FALSE

\* the last sample of series s at start time t
LastAt(s, t) ==
  s.points[CHOOSE i \in 1..Len(s.points) :
             /\ s.points[i].t = t
             /\ \A j \in (i + 1)..Len(s.points) : s.points[j].t # t]

\* the start times of the samples of series s
TimesOf(s) == { s.points[i].t : i \in 1..Len(s.points) }

\* _accumulate_commands works on one more series
AccumulatesSeries == cphase = "commands" /\ nseries' = nseries + 1

LabelOf(ls, names) ==
  IF \E i \in 1..Len(names) : HasLabel(ls, names[i])
  THEN ls[names[CHOOSE i \in 1..Len(names) :
                  /\ HasLabel(ls, names[i])
                  /\ \A j \in 1..(i - 1) : ~HasLabel(ls, names[j])]]
  ELSE ""

\* what a series says about an identity field, "" if nothing
SaidOf(s, f) ==
  CASE f = "Region" -> LabelOf(s.resource, REGION_LABELS)
    [] f = "Zone" -> LabelOf(s.resource, ZONE_LABELS)
    [] f = "NodeType" -> LabelOf(s.resource, NODETYPE_LABELS)
    [] f = "NodeRole" ->
         CASE RoleLabel(s) = "primary" -> "Master"
           [] RoleLabel(s) = "replica" -> "Replica"
           [] OTHER -> RoleLabel(s)

\* C27: every series _accumulate_commands works on leaves each of Region,
\* Zone, NodeType and NodeRole of its node at what the series says when it
\* says something (the last non-empty value wins) and at the stored value
\* when it says nothing; a series without a command name still creates or
\* updates the entry of its node and adds no point to it.
C27_IdentityFieldsSticky ==
  [][AccumulatesSeries =>
       LET s == ts'[1]
           k == KeyOf(s.resource)
           old == EntryOf(k)
       IN  /\ k \in DOMAIN table'
           /\ \A f \in DOMAIN FieldLabels :
                table'[k][f] = (IF SaidOf(s, f) # "" THEN SaidOf(s, f)
                                ELSE old[f])
           /\ ~truthy(cmd_of(s.metric)) =>
                table'[k]["points"] = old["points"]
    ]_vars

\* node (i1, n1) after three series without a command name: its zone is the
\* one only the first said, its region, node type and role are those the
\* second said in place of the first's, and the last series said nothing
C27_Witness ==
  /\ InCommandsLoop
  /\ nseries = 3
  /\ KeyOf(ts[1].resource) = << "i1", "n1" >>
  /\ \A f \in DOMAIN FieldLabels : SaidOf(ts[1], f) = ""
  /\ ~truthy(cmd_of(ts[1].metric))
  /\ LET entry == table[<< "i1", "n1" >>]
     IN  /\ entry["Zone"] = "z1"
         /\ entry["Region"] = "r2"
         /\ entry["NodeType"] = "t2"
         /\ entry["NodeRole"] = "Replica"
         /\ DOMAIN entry["points"].m = {}

\* ------------------------------------------------------------------ C28
\* the sequence s names nothing twice
NoDuplicate(s) == \A i, j \in 1..Len(s) : i # j => s[i] # s[j]

\* the node a row stands for: product, cluster id, node id
NodeOf(row) == << row["InstanceType"], row["ClusterId"], row["NodeId"] >>

\* the rows rs are rows of distinct nodes, none with a key of the collector's
\* own book-keeping
CleanRows(rs) ==
  /\ \A i \in 1..Len(rs) : DOMAIN rs[i] \cap {"points", "commandstats"} = {}
  /\ \A i, j \in 1..Len(rs) : i # j => NodeOf(rs[i]) # NodeOf(rs[j])

\* C28: the rows collect_for_product returns and main gathers are one per
\* (product, cluster id, node id) and carry neither 'points' nor
\* 'commandstats'; the header main builds names no column twice and names
\* every key of every row, so that every row is written and the writing
\* never fails.
C28_HeaderCoversEveryRow ==
  /\ cphase # "crashed"
  /\ CleanRows(all_rows \o rows)
  /\ cphase = "done" =>
       /\ NoDuplicate(header)
       /\ \A i \in 1..Len(all_rows) : DOMAIN all_rows[i] \subseteq Elems(header)
       /\ Len(output) = Len(all_rows) + 1
       /\ output[1] = header
       /\ \A i \in 1..Len(all_rows) : Len(output[i + 1]) = Len(header)

\* a file was written with the rows of the same cluster id and node id under
\* two products, the first with command statistics and a capacity, the
\* second without command statistics
C28_Witness ==
  /\ cphase = "done"
  /\ Len(all_rows) = 2
  /\ all_rows[1]["InstanceType"] # all_rows[2]["InstanceType"]
  /\ all_rows[1]["ClusterId"] = all_rows[2]["ClusterId"]
  /\ all_rows[1]["NodeId"] = all_rows[2]["NodeId"]
  /\ "MaxMemory" \in DOMAIN all_rows[1]
  /\ "Throughput (Ops)" \in DOMAIN all_rows[1]
  /\ "Throughput (Ops)" \notin DOMAIN all_rows[2]
  /\ Len(output) = 3

====
